---- MODULE Spec2Model ----
(***************************************************************************)
(* Verification model of the fastener recommendation knowledge system.     *)
(*                                                                         *)
(* Two engines live in the repository and both are modelled here:          *)
(*   - the typed-field design: InputModel + ForwardChainingEngine +        *)
(*     ProblemSolvingModel (src/src/input_model.py, rule_model.py,         *)
(*     solving_model.py), specification Spec;                              *)
(*   - the list-accumulating design: InferenceEngine with its adaptive     *)
(*     question selector (src/src/engine.py), specification SpecIE.        *)
(*                                                                         *)
(* Python values are modelled as tagged records [cls, value] so that the   *)
(* code's isinstance dispatch and its Enum/str distinction are kept.       *)
(***************************************************************************)
EXTENDS Integers, Sequences, FiniteSets, TLC

(* ----------------------------------------------------------------------- *)
(* Bounds of the model                                                     *)
(* ----------------------------------------------------------------------- *)
\* longest rule catalog handed to the ForwardChainingEngine
MaxRules == 2

(* ----------------------------------------------------------------------- *)
(* Python values                                                           *)
(* ----------------------------------------------------------------------- *)
Str(s) == [cls |-> "str", value |-> s]

Bool(b) == [cls |-> "bool", value |-> IF b THEN "True" ELSE "False"]

None == [cls |-> "NoneType", value |-> "None"]

Enum(c, v) == [cls |-> c, value |-> v]

List(items) == [cls |-> "list", value |-> items]

PySet(elems) == [cls |-> "set", value |-> elems]

\* the outcome of an expression that raised instead of returning
Raised(e) == [cls |-> "raise", value |-> e]

IsRaised(v) == v.cls = "raise"

\* a tagged value, as opposed to a dataclass instance (a record of fields)
IsLeaf(v) == "cls" \in DOMAIN v

EnumClasses == {"MaterialType", "MoistureExposure", "LoadType", "Permanence",
                "Rigidity", "StrengthLevel", "ResistanceLevel"}

IsEnum(v) == v.cls \in EnumClasses

SeqToSet(s) == {s[i] : i \in 1..Len(s)}

\* Body applied to the value of v, v evaluated once (a local variable)
With(v, Body(_)) == CHOOSE r \in {Body(x) : x \in {v}} : TRUE

\* bool(v) of a tagged value
Truthy(v) ==
    ~(v.cls = "NoneType" \/ v = Bool(FALSE) \/ v = Str("")
      \/ (v.cls = "list" /\ v.value = <<>>) \/ (v.cls = "set" /\ v.value = {}))

(* ----------------------------------------------------------------------- *)
(* Ordinal scales                                                          *)
(* ----------------------------------------------------------------------- *)
STRENGTH_ORDER == <<"none", "very_low", "low", "moderate", "high", "very_high">>

RESISTANCE_ORDER == <<"none", "poor", "fair", "good", "excellent">>

RigidityValues == {"flexible", "semi_flexible", "rigid"}

\* list.index, 0-based; -1 stands for the ValueError of a missing element
IndexOf(order, v) ==
    IF v \in SeqToSet(order)
    THEN (CHOOSE i \in 1..Len(order) : order[i] = v) - 1
    ELSE -1

\* -1 also stands for the AttributeError of a value without .value
get_strength_idx(level) ==
    IF IsEnum(level) THEN IndexOf(STRENGTH_ORDER, level.value) ELSE -1

get_resistance_idx(level) ==
    IF IsEnum(level) THEN IndexOf(RESISTANCE_ORDER, level.value) ELSE -1

(* ----------------------------------------------------------------------- *)
(* Domain objects                                                          *)
(* ----------------------------------------------------------------------- *)
DerivedRequirements ==
    [min_tensile_strength       |-> Enum("StrengthLevel", "none"),
     min_shear_strength         |-> Enum("StrengthLevel", "none"),
     min_water_resistance       |-> Enum("ResistanceLevel", "none"),
     min_temperature_resistance |-> Enum("ResistanceLevel", "none"),
     min_uv_resistance          |-> Enum("ResistanceLevel", "none"),
     min_vibration_resistance   |-> Enum("ResistanceLevel", "none"),
     min_chemical_resistance    |-> Enum("ResistanceLevel", "none"),
     allowed_rigidities         |-> PySet({}),
     allowed_permanence         |-> PySet({}),
     allowed_categories         |-> PySet({}),
     excluded_categories        |-> PySet({})]

StrengthFields == {"min_tensile_strength", "min_shear_strength"}

ResistanceFields == {"min_water_resistance", "min_temperature_resistance",
                     "min_uv_resistance", "min_vibration_resistance",
                     "min_chemical_resistance"}

OrdinalFields == StrengthFields \cup ResistanceFields

material_placeholder ==
    [material_type |-> None,
     porosity      |-> Str("none"),
     brittleness   |-> Str("none"),
     base_strength |-> None]

create_empty_task ==
    [materials    |-> [material_a |-> material_placeholder,
                       material_b |-> material_placeholder],
     environment  |-> [moisture             |-> Enum("MoistureExposure", "none"),
                       chemical_exposure    |-> Bool(FALSE),
                       uv_exposure          |-> Bool(FALSE),
                       temperature_extremes |-> Bool(FALSE)],
     load         |-> [load_type         |-> Enum("LoadType", "static"),
                       vibration         |-> Bool(FALSE),
                       tension_dominant  |-> Bool(FALSE),
                       shock_loads       |-> Bool(FALSE),
                       required_strength |-> None],
     constraints  |-> [permanence           |-> Enum("Permanence", "semi_permanent"),
                       flexibility_required |-> Bool(FALSE),
                       orientation_vertical |-> Bool(FALSE),
                       precision_required   |-> Bool(FALSE),
                       health_constraints   |-> Bool(FALSE),
                       one_side_accessable  |-> Bool(FALSE),
                       max_curing_time      |-> None],
     requirements |-> DerivedRequirements]

(* ----------------------------------------------------------------------- *)
(* Attribute access on the object graph                                    *)
(* ----------------------------------------------------------------------- *)
\* hasattr(obj, part) for the dataclass instances of the domain model
HasAttr(obj, part) == (~IsLeaf(obj)) /\ part \in DOMAIN obj

RECURSIVE SetPath(_, _, _)
\* setattr at the end of a dotted path, on a copy of the object graph
SetPath(obj, parts, val) ==
    IF Len(parts) = 1
    THEN [obj EXCEPT ![parts[1]] = val]
    ELSE [obj EXCEPT ![parts[1]] = SetPath(obj[parts[1]], Tail(parts), val)]

MaterialSlots == <<"material_a", "material_b">>

\* setattr(target, attr, val) where target is reached by parent_path; when the
\* two slots of the MaterialPair hold one and the same Material object
\* (shared), a write through either slot is seen through both
SetAttr(t, shared, parent_path, attr, val) ==
    IF shared /\ Len(parent_path) = 2 /\ parent_path[1] = "materials"
              /\ parent_path[2] \in SeqToSet(MaterialSlots)
    THEN SetPath(SetPath(t, <<"materials", "material_a", attr>>, val),
                 <<"materials", "material_b", attr>>, val)
    ELSE SetPath(t, parent_path \o <<attr>>, val)

RECURSIVE resolve_path(_, _)
RECURSIVE resolve_any(_, _)
\* RuleFactory._resolve_path: the value at a dotted path, the list of both
\* materials' values below the segment "any", AttributeError on a segment the
\* object reached so far does not have
resolve_path(obj, parts) ==
    IF parts = <<>> THEN obj
    ELSE IF Head(parts) = "any" THEN resolve_any(obj, Tail(parts))
    ELSE IF ~HasAttr(obj, Head(parts)) THEN Raised("AttributeError")
    ELSE resolve_path(obj[Head(parts)], Tail(parts))

\* RuleFactory._resolve_any: an object without material_a / material_b yields
\* the empty list; "".split(".") is [""], which no object has as attribute
resolve_any(obj, remaining_path) ==
    LET rest   == IF remaining_path = <<>> THEN <<"">> ELSE remaining_path
        names  == SelectSeq(MaterialSlots, LAMBDA a : HasAttr(obj, a))
        values == [i \in 1..Len(names) |-> resolve_path(obj[names[i]], rest)]
    IN  IF \E i \in 1..Len(values) : IsLeaf(values[i]) /\ IsRaised(values[i])
        THEN Raised("AttributeError")
        ELSE List(values)

\* RuleFactory._resolve_parent: plain getattr along parts[:-1]
RECURSIVE resolve_parent(_, _)
resolve_parent(obj, parts) ==
    IF Len(parts) <= 1 THEN obj
    ELSE IF ~HasAttr(obj, Head(parts)) THEN Raised("AttributeError")
    ELSE resolve_parent(obj[Head(parts)], Tail(parts))

(* ----------------------------------------------------------------------- *)
(* Rule compiler: coercion, condition, action                              *)
(* ----------------------------------------------------------------------- *)
\* RuleFactory._coerce_value: StrengthLevel, then Rigidity, then
\* ResistanceLevel; anything else comes back unchanged
coerce_value(value) ==
    IF value.cls = "str" /\ value.value \in SeqToSet(STRENGTH_ORDER)
        THEN Enum("StrengthLevel", value.value)
    ELSE IF value.cls = "str" /\ value.value \in RigidityValues
        THEN Enum("Rigidity", value.value)
    ELSE IF value.cls = "str" /\ value.value \in SeqToSet(RESISTANCE_ORDER)
        THEN Enum("ResistanceLevel", value.value)
    ELSE value

\* the characters of the strings the knowledge bases of the model use
Chars(s) ==
    CASE s = "mechanical" -> {"m", "e", "c", "h", "a", "n", "i", "l"}
      [] s = "adhesive"   -> {"a", "d", "h", "e", "s", "i", "v"}
      [] s = "thermal"    -> {"t", "h", "e", "r", "m", "a", "l"}
      [] s = "rigid"      -> {"r", "i", "g", "d"}
      [] OTHER            -> {s}

\* RuleFactory._coerce_values: iterates its argument; a str iterates as its
\* characters, a value that is not iterable raises TypeError
coerce_values(values) ==
    IF values.cls = "list"
        THEN PySet({coerce_value(values.value[i]) : i \in 1..Len(values.value)})
    ELSE IF values.cls = "str"
        THEN PySet({coerce_value(Str(c)) : c \in Chars(values.value)})
    ELSE Raised("TypeError")

\* the normalisation of an actual or expected value in condition():
\* an Enum becomes its value, a list has its Enum elements replaced
NormalizeItem(v) ==
    IF ~IsLeaf(v) THEN [cls |-> "object", value |-> "dataclass"]
    ELSE IF IsEnum(v) THEN Str(v.value)
    ELSE v

Normalize(v) ==
    IF IsLeaf(v) /\ v.cls = "list"
    THEN List([i \in 1..Len(v.value) |-> NormalizeItem(v.value[i])])
    ELSE NormalizeItem(v)

\* mutant of PairHolds: a list of acceptable values is compared as one value
PairHoldsEqual(value, expected) ==
    IF value.cls = "list"
        THEN expected \in SeqToSet(value.value)
    ELSE value = expected

\* the comparison of one (path, expected) pair, both sides normalised
PairHolds(value, expected) ==
    IF value.cls = "list"
        THEN expected \in SeqToSet(value.value)
    ELSE IF expected.cls = "list"
        THEN value \in SeqToSet(expected.value)
    ELSE value = expected

RECURSIVE condition(_, _)
\* RuleFactory._build_condition.condition: "True", "False", or the raise of
\* the first pair whose path does not resolve
condition(t, condition_spec) ==
    IF condition_spec = <<>> THEN Bool(TRUE)
    ELSE LET pair  == Head(condition_spec)
             value == resolve_path(t, pair.path)
         IN  IF IsLeaf(value) /\ IsRaised(value) THEN value
             ELSE IF ~PairHolds(Normalize(value), Normalize(pair.expected))
                  THEN Bool(FALSE)
             ELSE condition(t, Tail(condition_spec))

\* mutant of ApplyEffect: an ordinal field is assigned the effect's value
\* whether or not it is above the current one
ApplyEffectAssign(t, shared, eff) ==
    LET parts       == eff.path
        parent_path == SubSeq(parts, 1, Len(parts) - 1)
        attr        == parts[Len(parts)]
        target      == resolve_parent(t, parts)
        fail        == [task |-> t, raised |-> TRUE]
    IN  IF IsLeaf(target) THEN fail
        ELSE IF ~HasAttr(target, attr) THEN fail
        ELSE LET current   == target[attr]
                 new_value == coerce_value(eff.value)
                 assigned  == [task |-> SetAttr(t, shared, parent_path, attr, new_value),
                               raised |-> FALSE]
             IN  IF ~IsLeaf(current) THEN assigned
                 ELSE IF current.cls = "StrengthLevel"
                     THEN IF get_strength_idx(new_value) < 0 THEN fail
                          ELSE assigned
                 ELSE IF current.cls = "ResistanceLevel"
                     THEN IF get_resistance_idx(new_value) < 0 THEN fail
                          ELSE assigned
                 ELSE IF current.cls = "set"
                     THEN LET more == coerce_values(eff.value)
                          IN  IF IsRaised(more) THEN fail
                              ELSE [task |-> SetAttr(t, shared, parent_path, attr,
                                               PySet(current.value \cup more.value)),
                                    raised |-> FALSE]
                 ELSE assigned

\* one (path, value) effect of RuleFactory._build_action.action; the result is
\* the task after it and whether it raised (the task is then unchanged)
ApplyEffect(t, shared, eff) ==
    LET parts       == eff.path
        parent_path == SubSeq(parts, 1, Len(parts) - 1)
        attr        == parts[Len(parts)]
        target      == resolve_parent(t, parts)
        fail        == [task |-> t, raised |-> TRUE]
    IN  IF IsLeaf(target) THEN fail
        ELSE IF ~HasAttr(target, attr) THEN fail
        ELSE LET current   == target[attr]
                 new_value == coerce_value(eff.value)
                 assigned  == [task |-> SetAttr(t, shared, parent_path, attr, new_value),
                               raised |-> FALSE]
                 kept      == [task |-> t, raised |-> FALSE]
             IN  IF ~IsLeaf(current) THEN assigned
                 ELSE IF current.cls = "StrengthLevel"
                     THEN IF get_strength_idx(new_value) < 0 THEN fail
                          ELSE IF get_strength_idx(current) < get_strength_idx(new_value)
                               THEN assigned ELSE kept
                 ELSE IF current.cls = "ResistanceLevel"
                     THEN IF get_resistance_idx(new_value) < 0 THEN fail
                          ELSE IF get_resistance_idx(current) < get_resistance_idx(new_value)
                               THEN assigned ELSE kept
                 ELSE IF current.cls = "set"
                     THEN LET more == coerce_values(eff.value)
                          IN  IF IsRaised(more) THEN fail
                              ELSE [task |-> SetAttr(t, shared, parent_path, attr,
                                               PySet(current.value \cup more.value)),
                                    raised |-> FALSE]
                 ELSE assigned

RECURSIVE action(_, _, _)
\* RuleFactory._build_action.action: the effects in the order of the effect
\* map; a raise stops it with the earlier effects already applied
action(t, shared, effect_spec) ==
    IF effect_spec = <<>> THEN [task |-> t, raised |-> FALSE]
    ELSE LET one == ApplyEffect(t, shared, Head(effect_spec))
         IN  IF one.raised THEN one
             ELSE action(one.task, shared, Tail(effect_spec))

(* ----------------------------------------------------------------------- *)
(* Knowledge base of the typed-field design                                *)
(* ----------------------------------------------------------------------- *)
Cond(path, expected) == [path |-> path, expected |-> expected]

Eff(path, value) == [path |-> path, value |-> value]

Req(field) == <<"requirements", field>>

\* rule specifications as kb.json gives them: id, conditions, effects
RulePool ==
    << [id         |-> "vibration_load",
        conditions |-> << Cond(<<"load", "vibration">>, Bool(TRUE)) >>,
        effects    |-> << Eff(Req("min_vibration_resistance"), Str("good")),
                          Eff(Req("min_tensile_strength"), Str("high")) >>],
       [id         |-> "high_tensile_needs_shear",
        conditions |-> << Cond(Req("min_tensile_strength"), Str("high")) >>,
        effects    |-> << Eff(Req("min_shear_strength"), Str("moderate")) >>],
       [id         |-> "one_side_access",
        conditions |-> << Cond(<<"constraints", "one_side_accessable">>, Bool(TRUE)) >>,
        effects    |-> << Eff(Req("min_tensile_strength"), Str("low")),
                          Eff(<<"load", "required_strength">>, Str("moderate")) >>],
       [id         |-> "brittle_material",
        conditions |-> << Cond(<<"materials", "any", "brittleness">>, Str("high")) >>,
        effects    |-> << Eff(Req("excluded_categories"), List(<<Str("mechanical")>>)) >>],
       [id         |-> "moisture_baseline",
        conditions |-> << Cond(<<"environment", "moisture">>,
                               List(<<Str("none"), Str("outdoor")>>)) >>,
        effects    |-> << Eff(Req("min_water_resistance"), Str("fair")) >>],
       [id         |-> "outdoor_uv",
        conditions |-> << Cond(<<"environment", "moisture">>, Str("outdoor")) >>,
        effects    |-> << Eff(Req("min_water_resistance"), Str("good")),
                          Eff(Req("min_uv_resistance"), Str("high")) >>] >>

\* the rule catalogs the engine is built over: every list of at most MaxRules
\* different specifications of the pool, in any order
RuleCatalogs ==
    {c \in UNION {[1..n -> SeqToSet(RulePool)] : n \in 1..MaxRules} :
        \A i, j \in 1..Len(c) : i # j => c[i] # c[j]}

\* kb["materials"]: the intrinsic properties answering a material question fills in
MaterialSpecs ==
    [wood  |-> [porosity |-> "medium", brittleness |-> "low",  base_strength |-> "moderate"],
     glass |-> [porosity |-> "none",   brittleness |-> "high", base_strength |-> "low"],
     metal |-> [porosity |-> "none",   brittleness |-> "low",  base_strength |-> "high"]]

\* kb["questions"]: id, attribute path, and the answers the front end offers
Questions ==
    << [id |-> "material_a_type", choices |-> {"glass"},
        attribute |-> <<"materials", "material_a", "material_type">>],
       [id |-> "material_b_type", choices |-> {"metal"},
        attribute |-> <<"materials", "material_b", "material_type">>],
       [id |-> "environment_moisture", choices |-> {"outdoor"},
        attribute |-> <<"environment", "moisture">>],
       [id |-> "vibration", choices |-> {"true", "false"},
        attribute |-> <<"load", "vibration">>],
       [id |-> "access_one_side", choices |-> {"true"},
        attribute |-> <<"constraints", "one_side_accessable">>] >>

Fastener(n, c, ts, ss, wr, tr, uv, vr, cr, rg, pm, two, mats) ==
    [name |-> n, category |-> Str(c), compatible_materials |-> mats,
     tensile_strength       |-> Enum("StrengthLevel", ts),
     shear_strength         |-> Enum("StrengthLevel", ss),
     water_resistance       |-> Enum("ResistanceLevel", wr),
     temperature_resistance |-> Enum("ResistanceLevel", tr),
     uv_resistance          |-> Enum("ResistanceLevel", uv),
     vibration_resistance   |-> Enum("ResistanceLevel", vr),
     chemical_resistance    |-> Enum("ResistanceLevel", cr),
     rigidity   |-> Enum("Rigidity", rg),
     permanence |-> Enum("Permanence", pm),
     requires_two_sided_access |-> two]

\* kb["fasteners"]: the candidate catalog, read-only
Fasteners ==
    << Fastener("Test Bolt", "mechanical", "moderate", "moderate",
                "fair", "fair", "fair", "fair", "fair", "rigid", "removable",
                FALSE, {"metal"}),
       Fastener("Hex bolt", "mechanical", "high", "high",
                "good", "good", "good", "fair", "good", "rigid", "removable",
                TRUE, {"metal", "wood"}),
       Fastener("Wood glue", "adhesive", "moderate", "low",
                "poor", "fair", "fair", "poor", "poor", "rigid", "permanent",
                FALSE, {"wood"}),
       Fastener("Two-part epoxy", "adhesive", "high", "moderate",
                "good", "good", "fair", "good", "good", "rigid", "permanent",
                FALSE, {"wood", "glass", "metal"}),
       Fastener("Metal welding", "thermal", "very_high", "very_high",
                "excellent", "excellent", "excellent", "excellent", "excellent",
                "rigid", "permanent", FALSE, {"metal"}) >>

(* ----------------------------------------------------------------------- *)
(* Candidate matcher of the typed-field design                             *)
(* ----------------------------------------------------------------------- *)
\* mutant of fastener_satisfies_requirements: the ordinal comparisons reject
\* an attribute equal to the minimum as well
fastener_satisfies_requirements_strict(fastener, t) ==
    LET req == t.requirements
    IN  /\ ~(req.allowed_categories.value # {}
             /\ fastener.category \notin req.allowed_categories.value)
        /\ fastener.category \notin req.excluded_categories.value
        /\ ~(req.allowed_rigidities.value # {}
             /\ fastener.rigidity \notin req.allowed_rigidities.value)
        /\ ~(get_strength_idx(fastener.tensile_strength)
                <= get_strength_idx(req.min_tensile_strength))
        /\ ~(get_strength_idx(fastener.shear_strength)
                <= get_strength_idx(req.min_shear_strength))
        /\ ~(get_resistance_idx(fastener.water_resistance)
                <= get_resistance_idx(req.min_water_resistance))
        /\ ~(get_resistance_idx(fastener.temperature_resistance)
                <= get_resistance_idx(req.min_temperature_resistance))
        /\ ~(get_resistance_idx(fastener.uv_resistance)
                <= get_resistance_idx(req.min_uv_resistance))
        /\ ~(get_resistance_idx(fastener.vibration_resistance)
                <= get_resistance_idx(req.min_vibration_resistance))
        /\ ~(get_resistance_idx(fastener.chemical_resistance)
                <= get_resistance_idx(req.min_chemical_resistance))
        /\ ~(Truthy(t.constraints.one_side_accessable)
             /\ fastener.requires_two_sided_access)

\* mutant of category_rejects: the excluded set is consulted only when no
\* allowed set is given
category_rejects_allowed_first(fastener, req) ==
    IF req.allowed_categories.value # {}
    THEN fastener.category \notin req.allowed_categories.value
    ELSE fastener.category \in req.excluded_categories.value

\* lines 123-126: the category constraints
category_rejects(fastener, req) ==
    \/ (req.allowed_categories.value # {}
        /\ fastener.category \notin req.allowed_categories.value)
    \/ fastener.category \in req.excluded_categories.value

\* mutant of access_rejects: the fasteners that need one side only are the
\* ones turned away
access_rejects_inverted(fastener, t) ==
    Truthy(t.constraints.one_side_accessable) /\ ~fastener.requires_two_sided_access

\* lines 151-152: the one-sided access constraint
access_rejects(fastener, t) ==
    Truthy(t.constraints.one_side_accessable) /\ fastener.requires_two_sided_access

\* ProblemSolvingModel._fastener_satisfies_requirements
fastener_satisfies_requirements(fastener, t) ==
    LET req == t.requirements
    IN  /\ ~category_rejects(fastener, req)
        /\ ~(req.allowed_rigidities.value # {}
             /\ fastener.rigidity \notin req.allowed_rigidities.value)
        /\ ~(get_strength_idx(fastener.tensile_strength)
                < get_strength_idx(req.min_tensile_strength))
        /\ ~(get_strength_idx(fastener.shear_strength)
                < get_strength_idx(req.min_shear_strength))
        /\ ~(get_resistance_idx(fastener.water_resistance)
                < get_resistance_idx(req.min_water_resistance))
        /\ ~(get_resistance_idx(fastener.temperature_resistance)
                < get_resistance_idx(req.min_temperature_resistance))
        /\ ~(get_resistance_idx(fastener.uv_resistance)
                < get_resistance_idx(req.min_uv_resistance))
        /\ ~(get_resistance_idx(fastener.vibration_resistance)
                < get_resistance_idx(req.min_vibration_resistance))
        /\ ~(get_resistance_idx(fastener.chemical_resistance)
                < get_resistance_idx(req.min_chemical_resistance))
        /\ ~access_rejects(fastener, t)

\* ProblemSolvingModel.evaluate_candidates: the accepted fasteners, catalog order
evaluate_candidates(t) ==
    SelectSeq(Fasteners, LAMBDA f : fastener_satisfies_requirements(f, t))

(* ----------------------------------------------------------------------- *)
(* InputModel: answers applied to the task                                 *)
(* ----------------------------------------------------------------------- *)
EnumMembers ==
    [MaterialType     |-> {"wood", "metal", "paper", "plastic", "glass",
                           "ceramic", "stone", "masonry", "fabric"},
     MoistureExposure |-> {"none", "splash", "outdoor", "submerged"},
     LoadType         |-> {"static", "light_dynamic", "heavy_dynamic"},
     Permanence       |-> {"removable", "semi_permanent", "permanent"}]

enum_map ==
    [material_type |-> "MaterialType", moisture |-> "MoistureExposure",
     load_type |-> "LoadType", permanence |-> "Permanence"]

\* InputModel._coerce_value: "true"/"false" in any case become booleans, the
\* four enum attributes are parsed (ValueError on a non-member)
input_coerce_value(attr, value) ==
    IF value.cls = "str" /\ value.value \in {"true", "True", "TRUE"} THEN Bool(TRUE)
    ELSE IF value.cls = "str" /\ value.value \in {"false", "False", "FALSE"} THEN Bool(FALSE)
    ELSE IF attr \in DOMAIN enum_map
        THEN IF value.cls = "str" /\ value.value \in EnumMembers[enum_map[attr]]
             THEN Enum(enum_map[attr], value.value)
             ELSE Raised("ValueError")
    ELSE value

\* InputModel._apply_material: the four fields of the addressed Material
apply_material(t, shared, parent_path, material_type) ==
    IF ~(material_type.cls = "str" /\ material_type.value \in DOMAIN MaterialSpecs)
    THEN [task |-> t, raised |-> TRUE]
    ELSE LET spec == MaterialSpecs[material_type.value]
             t1 == SetAttr(t, shared, parent_path, "material_type",
                           Enum("MaterialType", material_type.value))
             t2 == SetAttr(t1, shared, parent_path, "porosity", Str(spec.porosity))
             t3 == SetAttr(t2, shared, parent_path, "brittleness", Str(spec.brittleness))
             t4 == SetAttr(t3, shared, parent_path, "base_strength",
                           Enum("StrengthLevel", spec.base_strength))
         IN  [task |-> t4, raised |-> FALSE]

\* InputModel._apply_answer
apply_answer(t, shared, attribute_path, value) ==
    LET parent_path == SubSeq(attribute_path, 1, Len(attribute_path) - 1)
        attr        == attribute_path[Len(attribute_path)]
        target      == resolve_parent(t, attribute_path)
        m           == IF attr = "material_type"
                       THEN apply_material(t, shared, parent_path, value)
                       ELSE [task |-> t, raised |-> FALSE]
        coerced     == input_coerce_value(attr, value)
    IN  IF IsLeaf(target) THEN [task |-> t, raised |-> TRUE]
        ELSE IF m.raised THEN m
        ELSE IF IsRaised(coerced) THEN [task |-> m.task, raised |-> TRUE]
        ELSE [task |-> SetAttr(m.task, shared, parent_path, attr, coerced),
              raised |-> FALSE]

(* ----------------------------------------------------------------------- *)
(* State of one session of the typed-field design                          *)
(* ----------------------------------------------------------------------- *)
VARIABLES
    rules,        \* ForwardChainingEngine.rule_base.rules, fixed at construction
    task,         \* InputModel.task, the FasteningTask the engine reasons about
    shared,       \* whether material_a and material_b are one Material object
    answers,      \* InputModel.answers
    fired_rules,  \* ForwardChainingEngine.fired_rules
    pc,           \* "idle", "for" (inside infer's loops), "aborted" (infer raised)
                  \* or "result" (the caller holds a list of recommendations)
    idx,          \* position of infer's for loop in the rule list
    changed,      \* infer's local flag
    passes,       \* passes over the rule list started by the running (last) infer
    fire_count,   \* per rule id, how often its action was run in this session
    last_fired,   \* id of the rule whose action was run most recently, or ""
    settled       \* the last infer returned and the task is as it left it

fcVars == <<rules, task, shared, answers, fired_rules, pc, idx, changed,
            passes, fire_count, last_fired, settled>>

(* ----------------------------------------------------------------------- *)
(* State of one session of the list-accumulating design                    *)
(* ----------------------------------------------------------------------- *)
VARIABLES
    facts,        \* InferenceEngine.facts of the session's engine
    conclusions,  \* InferenceEngine.conclusions of the session's engine
    asked,        \* the asked_questions argument of the pending select_next_question
    selected,     \* what that call returned: the id of a Question, or None
    returned      \* a select_next_question result is waiting for the caller

ieVars == <<facts, conclusions, asked, selected, returned>>

(* ----------------------------------------------------------------------- *)
(* The result of a recommendation, in either design                        *)
(* ----------------------------------------------------------------------- *)
VARIABLES
    recommended   \* the list a recommend/evaluate_candidates/recommend_fasteners
                  \* call has handed to its caller (fastener names, catalog
                  \* order), None while no such result is held

outVars == <<recommended>>

(* ----------------------------------------------------------------------- *)
(* A second session built on the same RuleBase and fastener list           *)
(* ----------------------------------------------------------------------- *)
VARIABLES
    other         \* the InputModel/ForwardChainingEngine state of the session that
                  \* is not being operated on, None when the process has one only

peerVars == <<other>>

(* ----------------------------------------------------------------------- *)
(* A dictionary exchanged through InputModel.get_state / restore_state     *)
(* ----------------------------------------------------------------------- *)
VARIABLES
    state_dict    \* the dictionary the last get_state call returned or the last
                  \* restore_state call was given, as its holder reads it now;
                  \* None while the caller holds none

snapVars == <<state_dict>>

vars == <<fcVars, ieVars, outVars, peerVars, snapVars>>

\* no recommendation has been asked for, or the last one has been consumed
NoResult == recommended.cls = "NoneType"

\* no recommendation has been asked for yet
InitResult == recommended = None

\* the process has built one session on its catalog and holds no state
\* dictionary
InitAlone == other = None /\ state_dict = None

RuleIds == {RulePool[i].id : i \in 1..Len(RulePool)}

\* InputModel.__init__ and ForwardChainingEngine.__init__
InitFC ==
    /\ rules \in RuleCatalogs
    /\ task = create_empty_task
    /\ shared = TRUE
    /\ answers = <<>>
    /\ fired_rules = {}
    /\ pc = "idle"
    /\ idx = 0
    /\ changed = FALSE
    /\ passes = 0
    /\ fire_count = [r \in RuleIds |-> 0]
    /\ last_fired = ""
    /\ settled = FALSE

\* mutant of already_fired: the fired set is not consulted
already_fired_never(fired, id) == FALSE

\* the guard of line 149: the rule was fired before
already_fired(fired, id) == id \in fired

\* mutant of mark_fired: the rule is not recorded
mark_fired_never(fired, id) == fired

\* line 154: the rule is recorded as fired
mark_fired(fired, id) == fired \cup {id}

\* mutant of rule_at: the for loop walks the rule list from its end
rule_at_reversed(rs, i) == rs[Len(rs) + 1 - i]

\* line 148, for rule in self.rule_base.rules: the rule of the i-th iteration
rule_at(rs, i) == rs[i]

\* mutant of another_pass: infer stops after a single pass
another_pass_never(chg) == FALSE

\* line 145: the while loop goes round again iff the pass fired a rule
another_pass(chg) == chg

\* the set-valued fields of DerivedRequirements
SetFields == {"allowed_rigidities", "allowed_permanence", "allowed_categories",
              "excluded_categories"}

\* mutant of requirement_set: one set object per class, a mutable default
requirement_set_of_class(session, field) == <<"DerivedRequirements", field>>

\* domain_model.py 363-366, field(default_factory=set): the set object behind
\* a set field of a session's DerivedRequirements is built for that instance
requirement_set(session, field) == <<session, field>>

\* rule_model.py 114, self.fired_rules = set(): the set object is built for
\* the engine instance
fired_rules_set(session) == <<session, "fired_rules">>

\* what the session not being operated on holds after set.update and
\* fired_rules.add (lines 154 and 287) have written the running session's set
\* objects: a set object that both sessions hold shows the write in both
seen_by_other(o, t, fired) ==
    IF o.cls = "NoneType" THEN o
    ELSE [o EXCEPT
            !.value.task.requirements =
                [f \in DOMAIN @ |->
                    IF f \in SetFields
                       /\ requirement_set("other", f) = requirement_set("running", f)
                    THEN t.requirements[f] ELSE @[f]],
            !.value.fired_rules =
                IF fired_rules_set("other") = fired_rules_set("running")
                THEN fired ELSE @]

\* mutant of input_get_state: the dictionary holds a copy of the answers
input_get_state_copy(ans) ==
    [cls |-> "dict", value |-> [answers |-> ans], holds |-> "copy"]

\* InputModel.get_state, lines 54-61: the dictionary's "answers" entry is the
\* object self.answers
input_get_state(ans) ==
    [cls |-> "dict", value |-> [answers |-> ans], holds |-> "self.answers"]

\* what the holder of a state dictionary reads once line 125 has written
\* self.answers: the write shows in a dictionary whose entry is that object
seen_in_dict(d, ans) ==
    IF d.cls = "NoneType" THEN d
    ELSE IF d.holds = "self.answers" THEN [d EXCEPT !.value.answers = ans]
    ELSE d

\* InputModel.answer_question, for the answers the front end offers to the
\* questions numbered qs
Answer(qs) ==
    /\ pc = "idle"
    /\ \E q \in qs : \E v \in Questions[q].choices :
         LET r == apply_answer(task, shared, Questions[q].attribute, Str(v))
         IN  /\ answers' = [k \in DOMAIN answers \cup {Questions[q].id} |->
                               IF k = Questions[q].id THEN Str(v) ELSE answers[k]]
             /\ task' = r.task
             /\ settled' = (settled /\ r.task = task)
    /\ UNCHANGED <<rules, shared, fired_rules, pc, idx, changed, passes,
                   fire_count, last_fired>>
    /\ UNCHANGED <<ieVars, outVars, peerVars>>
    /\ state_dict' = seen_in_dict(state_dict, answers')

\* any question of the catalog is answered
AnswerQuestion == Answer(1..Len(Questions))

\* ForwardChainingEngine.infer, lines 143-146: entry, first pass begins
InferCall ==
    /\ pc = "idle"
    /\ pc' = "for"
    /\ changed' = FALSE
    /\ idx' = 1
    /\ passes' = 1
    /\ UNCHANGED <<rules, task, shared, answers, fired_rules, fire_count,
                   last_fired, settled>>
    /\ UNCHANGED <<ieVars, outVars, peerVars, snapVars>>

\* lines 148-155: one iteration of the for loop
InferRule ==
    /\ pc = "for"
    /\ idx <= Len(rules)
    /\ LET rule == rule_at(rules, idx)
           skip == already_fired(fired_rules, rule.id)
           c    == IF skip THEN Bool(FALSE) ELSE condition(task, rule.conditions)
           run  == c = Bool(TRUE)
           a    == IF run THEN action(task, shared, rule.effects)
                   ELSE [task |-> task, raised |-> FALSE]
           fail == IsRaised(c) \/ a.raised
       IN  /\ task' = a.task
           /\ fire_count' = IF run THEN [fire_count EXCEPT ![rule.id] = @ + 1]
                            ELSE fire_count
           /\ last_fired' = IF run THEN rule.id ELSE last_fired
           /\ fired_rules' = IF run /\ ~fail THEN mark_fired(fired_rules, rule.id)
                             ELSE fired_rules
           /\ changed' = IF run /\ ~fail THEN TRUE ELSE changed
           /\ pc' = IF fail THEN "aborted" ELSE "for"
           /\ idx' = IF fail THEN idx ELSE idx + 1
           /\ settled' = IF fail THEN FALSE ELSE settled
           /\ other' = seen_by_other(other, a.task,
                                    IF run /\ ~fail THEN mark_fired(fired_rules, rule.id)
                                    ELSE fired_rules)
    /\ UNCHANGED <<rules, shared, answers, passes>>
    /\ UNCHANGED <<ieVars, outVars, snapVars>>

\* line 145: the for loop is over; another pass if a rule fired, else return
InferPassEnd ==
    /\ pc = "for"
    /\ idx > Len(rules)
    /\ IF another_pass(changed)
       THEN /\ changed' = FALSE
            /\ idx' = 1
            /\ passes' = passes + 1
            /\ UNCHANGED <<pc, settled>>
       ELSE /\ pc' = "idle"
            /\ settled' = TRUE
            /\ UNCHANGED <<changed, idx, passes>>
    /\ UNCHANGED <<rules, task, shared, answers, fired_rules, fire_count, last_fired>>
    /\ UNCHANGED <<ieVars, outVars, peerVars, snapVars>>

\* the locals and fields infer works on, as one value
InferState(t, fired, count, last, i, chg, n) ==
    [task |-> t, fired_rules |-> fired, fire_count |-> count, last_fired |-> last,
     idx |-> i, changed |-> chg, passes |-> n, raised |-> FALSE]

RECURSIVE infer_for(_, _, _)
\* lines 148-155, the for loop from position st.idx on; a raise leaves it
infer_for(st, sh, rs) ==
    IF st.raised \/ st.idx > Len(rs) THEN st
    ELSE With(rule_at(rs, st.idx), LAMBDA rule :
         With(IF already_fired(st.fired_rules, rule.id) THEN Bool(FALSE)
              ELSE condition(st.task, rule.conditions), LAMBDA c :
         With(IF c = Bool(TRUE) THEN action(st.task, sh, rule.effects)
              ELSE [task |-> st.task, raised |-> FALSE], LAMBDA a :
         With(c = Bool(TRUE), LAMBDA run :
         With(IsRaised(c) \/ a.raised, LAMBDA fail :
         With([task        |-> a.task,
               fired_rules |-> IF run /\ ~fail THEN mark_fired(st.fired_rules, rule.id)
                               ELSE st.fired_rules,
               fire_count  |-> IF run THEN [st.fire_count EXCEPT ![rule.id] = @ + 1]
                               ELSE st.fire_count,
               last_fired  |-> IF run THEN rule.id ELSE st.last_fired,
               idx         |-> IF fail THEN st.idx ELSE st.idx + 1,
               changed     |-> IF run /\ ~fail THEN TRUE ELSE st.changed,
               passes      |-> st.passes,
               raised      |-> fail], LAMBDA next :
         infer_for(next, sh, rs)))))))

RECURSIVE infer_while(_, _, _)
\* lines 143-155, the while loop from the end of a pass on; it is left after
\* pass Len(rs) + 2 at the latest, which a terminating infer never starts
infer_while(st, sh, rs) ==
    IF st.raised \/ ~another_pass(st.changed) \/ st.passes > Len(rs) + 1 THEN st
    ELSE With(infer_for([st EXCEPT !.changed = FALSE, !.idx = 1,
                                  !.passes = @ + 1], sh, rs), LAMBDA done :
         infer_while(done, sh, rs))

\* ForwardChainingEngine.infer as one call
infer_call(st, sh, rs) ==
    infer_while(infer_for([st EXCEPT !.changed = FALSE, !.idx = 1, !.passes = 1],
                          sh, rs), sh, rs)

\* mutant of recommend_list: the candidates are evaluated on the task as it
\* was before the requirements were derived
recommend_list_before(before, after) == evaluate_candidates(before)

\* ProblemSolvingModel.recommend, line 172: the candidates are evaluated on
\* the task derive_requirements has worked on
recommend_list(before, after) == evaluate_candidates(after)

\* ProblemSolvingModel.recommend: specify_problem, derive_requirements
\* (infer), evaluate_candidates; a raise inside infer leaves recommend too
Recommend ==
    /\ pc = "idle"
    /\ NoResult
    /\ \E st \in {infer_call(InferState(task, fired_rules, fire_count, last_fired,
                                         idx, changed, passes), shared, rules)} :
          /\ st.passes <= Len(rules) + 1
          /\ task' = st.task
          /\ fired_rules' = st.fired_rules
          /\ fire_count' = st.fire_count
          /\ last_fired' = st.last_fired
          /\ idx' = st.idx
          /\ changed' = st.changed
          /\ passes' = st.passes
          /\ IF st.raised
             THEN /\ pc' = "aborted"
                  /\ settled' = FALSE
                  /\ recommended' = None
             ELSE /\ pc' = "result"
                  /\ settled' = TRUE
                  /\ recommended' = List(recommend_list(task, st.task))
    /\ UNCHANGED <<rules, shared, answers>>
    /\ UNCHANGED <<ieVars, peerVars, snapVars>>


(* ----------------------------------------------------------------------- *)
(* Snapshots: to_dict / from_dict, get_state / restore_state               *)
(* ----------------------------------------------------------------------- *)
\* v.value: the value of an Enum member, AttributeError on anything else
enum_value(v) == IF IsEnum(v) THEN Str(v.value) ELSE Raised("AttributeError")

\* v.value if v else None
enum_value_or_none(v) == IF Truthy(v) THEN enum_value(v) ELSE None

\* EnumClass(v): the member with that value, ValueError when there is none
make_enum(cls, members, v) ==
    IF v.cls = "str" /\ v.value \in members THEN Enum(cls, v.value)
    ELSE Raised("ValueError")

RECURSIVE SetToSeq(_)
\* the elements of a set in the order an iteration happens to give them
SetToSeq(S) ==
    IF S = {} THEN <<>>
    ELSE LET x == CHOOSE y \in S : TRUE IN <<x>> \o SetToSeq(S \ {x})

\* [m.value for m in members]
enum_values(members) ==
    IF \E m \in members.value : ~IsEnum(m) THEN Raised("AttributeError")
    ELSE List(SetToSeq({enum_value(m) : m \in members.value}))

\* {EnumClass(v) for v in values}
make_enums(cls, members, values) ==
    IF \E v \in SeqToSet(values.value) : IsRaised(make_enum(cls, members, v))
    THEN Raised("ValueError")
    ELSE PySet({make_enum(cls, members, v) : v \in SeqToSet(values.value)})

\* Material.to_dict
Material_to_dict(m) ==
    [material_type |-> enum_value_or_none(m.material_type),
     porosity      |-> m.porosity,
     brittleness   |-> m.brittleness,
     base_strength |-> enum_value_or_none(m.base_strength)]

\* Material.from_dict
Material_from_dict(data) ==
    [material_type |-> IF data.material_type.cls # "NoneType"
                       THEN make_enum("MaterialType", EnumMembers.MaterialType,
                                      data.material_type)
                       ELSE None,
     porosity      |-> data.porosity,
     brittleness   |-> data.brittleness,
     base_strength |-> IF data.base_strength.cls # "NoneType"
                       THEN make_enum("StrengthLevel", SeqToSet(STRENGTH_ORDER),
                                      data.base_strength)
                       ELSE None]

\* MaterialPair.to_dict
MaterialPair_to_dict(p) ==
    [material_a |-> Material_to_dict(p.material_a),
     material_b |-> Material_to_dict(p.material_b)]

\* MaterialPair.from_dict: two Material objects, one per slot
MaterialPair_from_dict(data) ==
    [material_a |-> Material_from_dict(data.material_a),
     material_b |-> Material_from_dict(data.material_b)]

\* Environment.to_dict
Environment_to_dict(e) == [e EXCEPT !.moisture = enum_value(@)]

\* Environment.from_dict
Environment_from_dict(data) ==
    [data EXCEPT !.moisture = make_enum("MoistureExposure",
                                        EnumMembers.MoistureExposure, @)]

\* LoadCondition.to_dict
LoadCondition_to_dict(l) ==
    [l EXCEPT !.load_type = enum_value(@),
              !.required_strength = enum_value_or_none(@)]

\* LoadCondition.from_dict
LoadCondition_from_dict(data) ==
    [data EXCEPT !.load_type = make_enum("LoadType", EnumMembers.LoadType, @),
                 !.required_strength =
                     IF Truthy(@)
                     THEN make_enum("StrengthLevel", SeqToSet(STRENGTH_ORDER), @)
                     ELSE None]

\* UsageConstraints.to_dict
UsageConstraints_to_dict(c) == [c EXCEPT !.permanence = enum_value(@)]

\* UsageConstraints.from_dict
UsageConstraints_from_dict(data) ==
    [data EXCEPT !.permanence = make_enum("Permanence", EnumMembers.Permanence, @)]

\* DerivedRequirements.to_dict
DerivedRequirements_to_dict(r) ==
    [f \in DOMAIN r |->
        IF f \in OrdinalFields THEN enum_value(r[f])
        ELSE IF f \in {"allowed_rigidities", "allowed_permanence"} THEN enum_values(r[f])
        ELSE List(SetToSeq(r[f].value))]

\* DerivedRequirements.from_dict
DerivedRequirements_from_dict(data) ==
    [f \in DOMAIN data |->
        IF f \in StrengthFields
            THEN make_enum("StrengthLevel", SeqToSet(STRENGTH_ORDER), data[f])
        ELSE IF f \in ResistanceFields
            THEN make_enum("ResistanceLevel", SeqToSet(RESISTANCE_ORDER), data[f])
        ELSE IF f = "allowed_rigidities"
            THEN make_enums("Rigidity", RigidityValues, data[f])
        ELSE IF f = "allowed_permanence"
            THEN make_enums("Permanence", EnumMembers.Permanence, data[f])
        ELSE PySet(SeqToSet(data[f].value))]

\* FasteningTask.to_dict
FasteningTask_to_dict(t) ==
    [materials    |-> MaterialPair_to_dict(t.materials),
     environment  |-> Environment_to_dict(t.environment),
     load         |-> LoadCondition_to_dict(t.load),
     constraints  |-> UsageConstraints_to_dict(t.constraints),
     requirements |-> DerivedRequirements_to_dict(t.requirements)]

\* FasteningTask.from_dict
FasteningTask_from_dict(data) ==
    [materials    |-> MaterialPair_from_dict(data.materials),
     environment  |-> Environment_from_dict(data.environment),
     load         |-> LoadCondition_from_dict(data.load),
     constraints  |-> UsageConstraints_from_dict(data.constraints),
     requirements |-> DerivedRequirements_from_dict(data.requirements)]

\* ForwardChainingEngine.get_state
get_state(fired) == [fired_rules |-> List(SetToSeq(fired))]

\* ForwardChainingEngine.restore_state
restore_state(state) == SeqToSet(state.fired_rules.value)

RECURSIVE HasRaised(_)
\* some expression inside the construction of the object raised
HasRaised(obj) ==
    IF IsLeaf(obj) THEN IsRaised(obj)
    ELSE \E f \in DOMAIN obj : HasRaised(obj[f])

\* the session is saved and rebuilt: FasteningTask.to_dict and get_state, then
\* FasteningTask.from_dict into the InputModel and restore_state into the
\* engine. The rebuilt MaterialPair holds two Material objects.
SnapshotRestore ==
    /\ pc = "idle"
    /\ NoResult
    /\ \E data \in {FasteningTask_to_dict(task)} :
          IF HasRaised(data)
          THEN pc' = "aborted" /\ UNCHANGED <<task, shared, fired_rules>>
          ELSE \E restored \in {FasteningTask_from_dict(data)} :
                  IF HasRaised(restored)
                  THEN pc' = "aborted" /\ UNCHANGED <<task, shared, fired_rules>>
                  ELSE /\ task' = restored
                       /\ shared' = FALSE
                       /\ fired_rules' = restore_state(get_state(fired_rules))
                       /\ pc' = "idle"
    /\ UNCHANGED <<rules, answers, idx, changed, passes, fire_count, last_fired, settled>>
    /\ UNCHANGED <<ieVars, outVars, peerVars, snapVars>>

NextSnapshot ==
    AnswerQuestion \/ InferCall \/ InferRule \/ InferPassEnd \/ SnapshotRestore

(* ----------------------------------------------------------------------- *)
(* The matcher called on a task of the caller's making                     *)
(* ----------------------------------------------------------------------- *)
\* largest number of members of a requirement set of such a task
MaxRequirementItems == 2

CategoryNames == {"mechanical", "adhesive", "thermal"}

PermanenceValues == {"removable", "semi_permanent", "permanent"}

Bounded(S) == {x \in SUBSET S : Cardinality(x) <= MaxRequirementItems}

\* FasteningTask objects as the callers of evaluate_candidates build them:
\* default sub-objects, the four requirement sets and the access constraint
\* filled in directly
MatcherTasks ==
    {[create_empty_task EXCEPT
         !.requirements.allowed_categories  = PySet({Str(c) : c \in ac}),
         !.requirements.excluded_categories = PySet({Str(c) : c \in ec}),
         !.requirements.allowed_rigidities  = PySet({Enum("Rigidity", r) : r \in ar}),
         !.requirements.allowed_permanence  = PySet({Enum("Permanence", x) : x \in ap}),
         !.constraints.one_side_accessable  = Bool(one)] :
       ac \in Bounded(CategoryNames), ec \in Bounded(CategoryNames),
       ar \in Bounded(RigidityValues), ap \in Bounded(PermanenceValues),
       one \in BOOLEAN}

\* ProblemSolvingModel.evaluate_candidates(task): the list goes to the caller
EvaluateCandidates ==
    /\ pc = "idle"
    /\ NoResult
    /\ recommended' = List(evaluate_candidates(task))
    /\ pc' = "result"
    /\ UNCHANGED <<rules, task, shared, answers, fired_rules, idx, changed,
                   passes, fire_count, last_fired, settled>>
    /\ UNCHANGED <<ieVars, peerVars, snapVars>>

\* the caller is done with the list it was handed
TakeResult ==
    /\ pc = "result"
    /\ recommended' = None
    /\ pc' = "idle"
    /\ UNCHANGED <<rules, task, shared, answers, fired_rules, idx, changed,
                   passes, fire_count, last_fired, settled>>
    /\ UNCHANGED <<ieVars, peerVars, snapVars>>

NextMatcher == EvaluateCandidates \/ TakeResult

NextFC ==
    AnswerQuestion \/ InferCall \/ InferRule \/ InferPassEnd \/ Recommend \/ TakeResult

(* ----------------------------------------------------------------------- *)
(* Knowledge base of the list-accumulating design (src/src/engine.py)      *)
(* ----------------------------------------------------------------------- *)
\* largest asked_questions set handed to select_next_question
MaxAsked == 2

\* infer is not called on a session whose conclusion lists already hold this
\* many items (the lists grow with every call)
MaxConclusionItems == 2

OrdinalScales_STRENGTH == <<"none", "very_low", "low", "moderate", "high", "very_high">>

OrdinalScales_RESISTANCE == <<"poor", "fair", "good", "excellent">>

MOISTURE_TO_RESISTANCE ==
    [no |-> "poor", splash |-> "fair", outdoor |-> "good", submerged |-> "excellent"]

\* the Enum classes of engine.py: their members have a .value
EngineEnumClasses == {"Strength", "Resistance", "Permanence", "Rigidity",
                      "FastenerCategory", "QuestionType"}

\* engine.Fastener with its MaterialProperties
KBFastener(n, c, mats, ts, wr, vr, rg, pm) ==
    [name       |-> n,
     category   |-> Enum("FastenerCategory", c),
     properties |-> [compatible_materials   |-> List(mats),
                     tensile_strength       |-> Enum("Strength", ts),
                     shear_strength         |-> Enum("Strength", ts),
                     compressive_strength   |-> Enum("Strength", ts),
                     water_resistance       |-> Enum("Resistance", wr),
                     weather_resistance     |-> Enum("Resistance", wr),
                     chemical_resistance    |-> Enum("Resistance", wr),
                     temperature_resistance |-> Enum("Resistance", wr),
                     vibration_resistance   |-> Enum("Resistance", vr),
                     rigidity               |-> Enum("Rigidity", rg),
                     permanence             |-> Enum("Permanence", pm),
                     notes                  |-> List(<<>>)]]

\* KnowledgeBase.fasteners
kb_fasteners ==
    << KBFastener("Wood glue", "adhesive", <<Str("wood"), Str("paper")>>,
                  "moderate", "poor", "poor", "rigid", "permanent"),
       KBFastener("Silicone sealant", "adhesive",
                  <<Str("glass"), Str("wood"), Str("metal")>>,
                  "low", "excellent", "good", "flexible", "semi_permanent"),
       KBFastener("Hex bolt", "mechanical", <<Str("wood"), Str("metal")>>,
                  "high", "fair", "fair", "semi_flexible", "removable"),
       KBFastener("Metal welding", "thermal", <<Str("metal")>>,
                  "very_high", "excellent", "excellent", "rigid", "permanent") >>

AllCategories == <<"adhesive", "mechanical", "thermal">>

\* KnowledgeBase.questions, in catalog order
kb_questions ==
    << [id |-> "material_type", type |-> Enum("QuestionType", "choice"),
        choices |-> <<Str("wood")>>, applicable_to |-> AllCategories],
       [id |-> "material_type_2", type |-> Enum("QuestionType", "choice"),
        choices |-> <<Str("wood"), Str("glass")>>, applicable_to |-> AllCategories],
       [id |-> "mechanical_strength", type |-> Enum("QuestionType", "choice"),
        choices |-> <<Str("low"), Str("moderate")>>, applicable_to |-> AllCategories],
       [id |-> "flexibility", type |-> Enum("QuestionType", "boolean"),
        choices |-> <<>>, applicable_to |-> <<"adhesive">>],
       [id |-> "moisture_exposure", type |-> Enum("QuestionType", "choice"),
        choices |-> <<Str("no"), Str("outdoor")>>,
        applicable_to |-> <<"adhesive", "mechanical">>],
       [id |-> "load_type", type |-> Enum("QuestionType", "choice"),
        choices |-> <<Str("static"), Str("vibration")>>,
        applicable_to |-> <<"adhesive", "mechanical">>] >>

\* one (question_id, expected) item of Rule.conditions
Expect(qid, expected) == [qid |-> qid, expected |-> expected]

\* one (key, value) item of Rule.conclusion
Conclude(key, value) == [key |-> key, value |-> value]

\* KnowledgeBase.rules
kb_rules ==
    << [id         |-> "flexible_joint",
        conditions |-> << Expect("flexibility", Bool(TRUE)) >>,
        conclusion |-> << Conclude("exclude_categories", Str("mechanical")) >>,
        priority   |-> 1],
       [id         |-> "glass_needs_adhesive",
        conditions |-> << Expect("material_type_2", List(<<Str("glass"), Str("ceramic")>>)) >>,
        conclusion |-> << Conclude("recommended_categories", List(<<Str("adhesive")>>)),
                          Conclude("required_properties",
                                   List(<<Str("rigidity:flexible"), Str("transparent")>>)) >>,
        priority   |-> 2],
       [id         |-> "outdoor_sealing",
        conditions |-> << Expect("moisture_exposure", Str("outdoor")) >>,
        conclusion |-> << Conclude("surface_prep", Str("seal")) >>,
        priority   |-> 1] >>

QuestionIds == {kb_questions[i].id : i \in 1..Len(kb_questions)}

\* the asked_questions arguments the model hands to select_next_question
AskedSets == {s \in SUBSET QuestionIds : Cardinality(s) <= MaxAsked}

(* ----------------------------------------------------------------------- *)
(* InferenceEngine: facts, rules, matcher                                  *)
(* ----------------------------------------------------------------------- *)
\* InferenceEngine.__init__: both dictionaries empty
NewEngine == [facts |-> <<>>, conclusions |-> <<>>]

\* dict[k] = v
Put(d, k, v) == [x \in DOMAIN d \cup {k} |-> IF x = k THEN v ELSE d[x]]

\* add_fact as dict.setdefault: a key that has a value keeps it
add_fact_keep_first(e, question_id, value) ==
    IF question_id \in DOMAIN e.facts THEN e
    ELSE [e EXCEPT !.facts = Put(@, question_id, value)]

\* InferenceEngine.add_fact
add_fact(e, question_id, value) == [e EXCEPT !.facts = Put(@, question_id, value)]

\* reset that clears the facts only
reset_facts_only(e) == [e EXCEPT !.facts = <<>>]

\* InferenceEngine.reset
reset(e) == [e EXCEPT !.facts = <<>>, !.conclusions = <<>>]

\* InferenceEngine.evaluate_rule
evaluate_rule(e, rule) ==
    \A i \in 1..Len(rule.conditions) :
        LET c == rule.conditions[i]
        IN  /\ c.qid \in DOMAIN e.facts
            /\ IF c.expected.cls = "list"
               THEN e.facts[c.qid] \in SeqToSet(c.expected.value)
               ELSE e.facts[c.qid] = c.expected

RECURSIVE apply_conclusion(_, _)
\* the loop of InferenceEngine.apply_rule over the items of rule.conclusion:
\* a list value extends the key's list, any other value is appended to it
apply_conclusion(concl, items) ==
    IF items = <<>> THEN concl
    ELSE LET it  == Head(items)
             cur == IF it.key \in DOMAIN concl THEN concl[it.key] ELSE <<>>
             new == IF it.value.cls = "list" THEN cur \o it.value.value
                    ELSE Append(cur, it.value)
         IN  apply_conclusion(Put(concl, it.key, new), Tail(items))

\* InferenceEngine.apply_rule
apply_rule(e, rule) == [e EXCEPT !.conclusions = apply_conclusion(@, rule.conclusion)]

RECURSIVE sorted_by_priority(_)
\* sorted(rules, key=priority, reverse=True): stable, highest priority first
sorted_by_priority(rs) ==
    IF rs = <<>> THEN <<>>
    ELSE LET top == CHOOSE i \in 1..Len(rs) :
                        /\ \A j \in 1..Len(rs) : rs[j].priority <= rs[i].priority
                        /\ \A j \in 1..(i - 1) : rs[j].priority < rs[i].priority
         IN  <<rs[top]>> \o sorted_by_priority(SubSeq(rs, 1, top - 1)
                                               \o SubSeq(rs, top + 1, Len(rs)))

RECURSIVE infer_rules(_, _)
\* the for loop of InferenceEngine.infer
infer_rules(e, rs) ==
    IF rs = <<>> THEN e
    ELSE infer_rules(IF evaluate_rule(e, Head(rs)) THEN apply_rule(e, Head(rs)) ELSE e,
                     Tail(rs))

\* InferenceEngine.infer: one pass, every satisfied rule applied
infer(e) == infer_rules(e, sorted_by_priority(kb_rules))

\* prop_requirement.split(":", 1) for the requirement strings of the rules;
\* <<>> stands for a string without ":"
split_requirement(s) ==
    CASE s = "rigidity:flexible" -> <<"rigidity", "flexible">>
      [] s = "rigidity:rigid"    -> <<"rigidity", "rigid">>
      [] OTHER                   -> <<>>

\* lines 490-504: one entry of conclusions["required_properties"]
property_holds(properties, prop_requirement) ==
    LET parts == split_requirement(prop_requirement.value)
    IN  IF parts = <<>> THEN TRUE
        ELSE IF parts[1] \notin DOMAIN properties THEN TRUE
        ELSE LET actual       == properties[parts[1]]
                 actual_value == IF actual.cls \in EngineEnumClasses
                                 THEN Str(actual.value) ELSE actual
             IN  actual_value = Str(parts[2])

\* the material check with the first material in place of the second
material_incompatible_first(f, props) ==
    /\ "material_type" \in DOMAIN f /\ "material_type_2" \in DOMAIN f
    /\ f["material_type"] \notin SeqToSet(props.compatible_materials.value)

\* lines 506-516: with both material facts, material_type_2 is not among the
\* fastener's compatible materials
material_incompatible(f, props) ==
    /\ "material_type" \in DOMAIN f /\ "material_type_2" \in DOMAIN f
    /\ f["material_type_2"] \notin SeqToSet(props.compatible_materials.value)

\* InferenceEngine.matches_fastener; the facts it indexes a scale with are
\* answers of the questions, all members of that scale
matches_fastener(e, fastener) ==
    LET f     == e.facts
        concl == e.conclusions
        props == fastener.properties
        cat   == Str(fastener.category.value)
    IN  /\ ~("exclude_categories" \in DOMAIN concl
             /\ cat \in SeqToSet(concl["exclude_categories"]))
        /\ ~("recommended_categories" \in DOMAIN concl
             /\ cat \notin SeqToSet(concl["recommended_categories"]))
        /\ ("required_properties" \in DOMAIN concl
              => \A i \in 1..Len(concl["required_properties"]) :
                    property_holds(props, concl["required_properties"][i]))
        /\ ~material_incompatible(f, props)
        /\ ~("mechanical_strength" \in DOMAIN f
             /\ IndexOf(OrdinalScales_STRENGTH, props.tensile_strength.value)
                   < IndexOf(OrdinalScales_STRENGTH, f["mechanical_strength"].value))
        /\ ~("moisture_exposure" \in DOMAIN f
             /\ f["moisture_exposure"].cls = "str"
             /\ f["moisture_exposure"].value \in DOMAIN MOISTURE_TO_RESISTANCE
             /\ IndexOf(OrdinalScales_RESISTANCE, props.water_resistance.value)
                   < IndexOf(OrdinalScales_RESISTANCE,
                             MOISTURE_TO_RESISTANCE[f["moisture_exposure"].value]))
        /\ ~("permanence" \in DOMAIN f
             /\ f["permanence"] # Str("semi_permanent")
             /\ f["permanence"] # Str(props.permanence.value))
        /\ ~("flexibility" \in DOMAIN f
             /\ Truthy(f["flexibility"])
             /\ props.rigidity.value \notin {"flexible", "semi_flexible"})
        /\ ~("load_type" \in DOMAIN f
             /\ f["load_type"] \in {Str("heavy_dynamic"), Str("vibration")}
             /\ IndexOf(OrdinalScales_RESISTANCE, props.vibration_resistance.value)
                   < IndexOf(OrdinalScales_RESISTANCE, "good"))

\* InferenceEngine.remaining_fasteners
remaining_fasteners(e) == SelectSeq(kb_fasteners, LAMBDA f : matches_fastener(e, f))

\* InferenceEngine.remaining_categories
remaining_categories(remaining) ==
    {remaining[i].category.value : i \in 1..Len(remaining)}

(* ----------------------------------------------------------------------- *)
(* InferenceEngine: simulation on a copy, question selection               *)
(* ----------------------------------------------------------------------- *)
\* The InferenceEngine objects alive during a call, by reference: "self" is
\* the session's engine, "temp" the local temp_engine of
\* simulate_answer_on_subset. The knowledge base is never written.
Heap(e) == [self |-> e, temp |-> NewEngine]

\* mutant of deepcopy: no copy is made, the result is the object itself
deepcopy_alias(heap, ref) == [heap |-> heap, ref |-> ref]

\* copy.deepcopy of an engine: a new object holding copies of both dictionaries
deepcopy(heap, ref) == [heap |-> [heap EXCEPT !["temp"] = heap[ref]], ref |-> "temp"]

\* InferenceEngine.simulate_answer_on_subset: the count, and the objects after it
simulate_answer_on_subset(heap, question_id, value, subset) ==
    With(deepcopy(heap, "self"), LAMBDA c :
    With([c.heap EXCEPT ![c.ref] = add_fact(@, question_id, value)], LAMBDA h1 :
    With([h1 EXCEPT ![c.ref] = infer(@)], LAMBDA h2 :
        [count |-> Len(SelectSeq(subset, LAMBDA f : matches_fastener(h2[c.ref], f))),
         heap  |-> h2])))

\* InferenceEngine.question_category_coverage
question_category_coverage(question, categories) ==
    Cardinality(SeqToSet(question.applicable_to) \cap categories)

\* the answers a question can get: its choices, or True and False
possible_answers(question) ==
    IF question.type = Enum("QuestionType", "choice") THEN question.choices
    ELSE <<Bool(TRUE), Bool(FALSE)>>

RECURSIVE simulate_answers(_, _, _, _)
\* the loop over the possible answers, one simulation each, in order
simulate_answers(heap, question_id, values, subset) ==
    IF values = <<>> THEN [counts |-> <<>>, heap |-> heap]
    ELSE With(simulate_answer_on_subset(heap, question_id, Head(values), subset),
              LAMBDA one :
         With(simulate_answers(one.heap, question_id, Tail(values), subset),
              LAMBDA rest :
             [counts |-> <<one.count>> \o rest.counts, heap |-> rest.heap]))

\* question_can_discriminate without the test: every question passes
question_can_discriminate_any(heap, question, remaining) ==
    [result |-> TRUE, heap |-> heap]

\* InferenceEngine.question_can_discriminate
question_can_discriminate(heap, question, remaining) ==
    With(simulate_answers(heap, question.id, possible_answers(question), remaining),
         LAMBDA r : [result |-> Cardinality(SeqToSet(r.counts)) > 1, heap |-> r.heap])

RECURSIVE SumSeq(_)
SumSeq(s) == IF s = <<>> THEN 0 ELSE Head(s) + SumSeq(Tail(s))

\* a score as the fraction num / den, den > 0
Score(num, den) == [num |-> num, den |-> den]

ScoreLess(a, b) == a.num * b.den < b.num * a.den

\* InferenceEngine.normalized_question_score:
\* (n - sum/k) / (n - n/k) = (n*k - sum) / (n*k - n), 0.0 when n <= 1 or k = 1;
\* called only for questions that can discriminate, which have k >= 2
normalized_question_score(heap, question) ==
    LET n == Len(remaining_fasteners(heap["self"]))
        k == Len(possible_answers(question))
    IN  IF n <= 1 THEN [score |-> Score(0, 1), heap |-> heap]
        ELSE With(simulate_answers(heap, question.id, possible_answers(question),
                                   remaining_fasteners(heap["self"])),
                  LAMBDA r :
                 IF n * k - n = 0 THEN [score |-> Score(0, 1), heap |-> r.heap]
                 ELSE [score |-> Score(n * k - SumSeq(r.counts), n * k - n),
                       heap  |-> r.heap])

\* mutant of mandatory: the two material questions in the other order
mandatory_swapped == <<"material_type_2", "material_type">>

\* line 376
mandatory == <<"material_type", "material_type_2">>

\* line 380: next(q for q in kb.questions if q.id == qid)
question_by_id(qid) ==
    LET found == SelectSeq(kb_questions, LAMBDA q : q.id = qid)
    IN  IF found = <<>> THEN Raised("StopIteration") ELSE Str(Head(found).id)

\* mutant of nothing_to_discriminate: only an empty candidate set ends the questions
nothing_to_discriminate_empty(remaining) == Len(remaining) = 0

\* line 385
nothing_to_discriminate(remaining) == Len(remaining) <= 1

\* mutant of already_handled: the asked set is not consulted
already_handled_facts_only(e, asked_questions, qid) == qid \in DOMAIN e.facts

\* line 391
already_handled(e, asked_questions, qid) ==
    qid \in DOMAIN e.facts \/ qid \in asked_questions

RECURSIVE collect_candidates(_, _, _, _, _)
\* lines 388-404: the (question, coverage, score) candidates, catalog order
collect_candidates(heap, questions, asked_questions, remaining, categories) ==
    IF questions = <<>> THEN [candidates |-> <<>>, heap |-> heap]
    ELSE LET question == Head(questions)
             coverage == question_category_coverage(question, categories)
         IN  IF already_handled(heap["self"], asked_questions, question.id)
                \/ coverage = 0
             THEN collect_candidates(heap, Tail(questions), asked_questions,
                                     remaining, categories)
             ELSE With(question_can_discriminate(heap, question, remaining), LAMBDA d :
                  IF ~d.result
                  THEN collect_candidates(d.heap, Tail(questions), asked_questions,
                                          remaining, categories)
                  ELSE With(normalized_question_score(d.heap, question), LAMBDA s :
                       With(collect_candidates(s.heap, Tail(questions), asked_questions,
                                               remaining, categories), LAMBDA rest :
                           [candidates |-> << [question |-> question,
                                               coverage |-> coverage,
                                               score    |-> s.score] >>
                                           \o rest.candidates,
                            heap       |-> rest.heap])))

\* mutant of prefer_multi_category: the comparison is inverted, the questions
\* of coverage one are the ones kept
prefer_single_category(candidates, categories) ==
    LET single_category == SelectSeq(candidates, LAMBDA c : c.coverage <= 1)
    IN  IF Cardinality(categories) > 1 /\ single_category # <<>>
        THEN single_category ELSE candidates

\* mutant of prefer_multi_category: the preference is left out
prefer_multi_category_off(candidates, categories) == candidates

\* lines 413-417
prefer_multi_category(candidates, categories) ==
    LET multi_category == SelectSeq(candidates, LAMBDA c : c.coverage > 1)
    IN  IF Cardinality(categories) > 1 /\ multi_category # <<>>
        THEN multi_category ELSE candidates

\* mutant of best_candidate: the last of the best
best_candidate_last(candidates) ==
    candidates[CHOOSE i \in 1..Len(candidates) :
                  /\ \A j \in 1..Len(candidates) :
                        ~ScoreLess(candidates[i].score, candidates[j].score)
                  /\ \A j \in (i + 1)..Len(candidates) :
                        ScoreLess(candidates[j].score, candidates[i].score)]

\* line 420: max(candidates, key=score), the first of the best
best_candidate(candidates) ==
    candidates[CHOOSE i \in 1..Len(candidates) :
                  /\ \A j \in 1..Len(candidates) :
                        ~ScoreLess(candidates[i].score, candidates[j].score)
                  /\ \A j \in 1..(i - 1) :
                        ScoreLess(candidates[j].score, candidates[i].score)]

\* InferenceEngine.select_next_question: the id of the question returned (or
\* None), and the objects after the call
select_next_question(heap, asked_questions) ==
    LET missing == SelectSeq(mandatory, LAMBDA qid : qid \notin DOMAIN heap["self"].facts)
    IN  IF missing # <<>> THEN [result |-> question_by_id(Head(missing)), heap |-> heap]
        ELSE
        With(remaining_fasteners(heap["self"]), LAMBDA remaining :
        With(remaining_categories(remaining), LAMBDA categories :
        IF nothing_to_discriminate(remaining) THEN [result |-> None, heap |-> heap]
        ELSE
        With(collect_candidates(heap, kb_questions, asked_questions,
                                remaining, categories), LAMBDA c :
        IF c.candidates = <<>> THEN [result |-> None, heap |-> c.heap]
        ELSE
        With(prefer_multi_category(c.candidates, categories), LAMBDA candidates :
        With(best_candidate(candidates), LAMBDA best :
        IF /\ question_category_coverage(best.question, categories) = 1
           /\ Cardinality(categories) > 1
           /\ \E i \in 1..Len(candidates) : candidates[i].coverage > 1
        THEN [result |-> None, heap |-> c.heap]
        ELSE [result |-> Str(best.question.id), heap |-> c.heap])))))

\* the session's engine as one object
Live == [facts |-> facts, conclusions |-> conclusions]

RECURSIVE ConclusionItemsOf(_, _)
ConclusionItemsOf(concl, keys) ==
    IF keys = {} THEN 0
    ELSE LET k == CHOOSE x \in keys : TRUE
         IN  Len(concl[k]) + ConclusionItemsOf(concl, keys \ {k})

\* the number of items in the lists of a conclusions dictionary
ConclusionItems(concl) == ConclusionItemsOf(concl, DOMAIN concl)

\* InferenceEngine.__init__, no select_next_question result pending
InitIE ==
    /\ facts = NewEngine.facts
    /\ conclusions = NewEngine.conclusions
    /\ asked = {}
    /\ selected = None
    /\ returned = FALSE

\* InferenceEngine.add_fact with a possible answer of a question of the catalog
AddFact ==
    /\ ~returned
    /\ NoResult
    /\ \E i \in 1..Len(kb_questions) :
         \E v \in SeqToSet(possible_answers(kb_questions[i])) :
            \E e \in {add_fact(Live, kb_questions[i].id, v)} :
               /\ facts' = e.facts
               /\ conclusions' = e.conclusions
    /\ UNCHANGED <<asked, selected, returned>>
    /\ UNCHANGED <<fcVars, outVars, peerVars, snapVars>>

\* InferenceEngine.infer on the session's engine
Infer ==
    /\ ~returned
    /\ NoResult
    /\ ConclusionItems(conclusions) < MaxConclusionItems
    /\ conclusions' = infer(Live).conclusions
    /\ UNCHANGED <<facts, asked, selected, returned>>
    /\ UNCHANGED <<fcVars, outVars, peerVars, snapVars>>

\* InferenceEngine.reset
Reset ==
    /\ ~returned
    /\ NoResult
    /\ facts' = reset(Live).facts
    /\ conclusions' = reset(Live).conclusions
    /\ UNCHANGED <<asked, selected, returned>>
    /\ UNCHANGED <<fcVars, outVars, peerVars, snapVars>>

\* InferenceEngine.select_next_question(asked_questions) on the session's engine
SelectNextQuestion ==
    /\ ~returned
    /\ NoResult
    /\ \E a \in AskedSets :
         \E out \in {select_next_question(Heap(Live), a)} :
             /\ facts' = out.heap["self"].facts
             /\ conclusions' = out.heap["self"].conclusions
             /\ asked' = a
             /\ selected' = out.result
    /\ returned' = TRUE
    /\ UNCHANGED <<fcVars, outVars, peerVars, snapVars>>

\* the questionnaire loop answers the returned question: add_fact(question.id, answer)
AnswerSelected ==
    /\ returned
    /\ selected # None
    /\ \E i \in 1..Len(kb_questions) :
         /\ kb_questions[i].id = selected.value
         /\ \E v \in SeqToSet(possible_answers(kb_questions[i])) :
               \E e \in {add_fact(Live, kb_questions[i].id, v)} :
                  /\ facts' = e.facts
                  /\ conclusions' = e.conclusions
    /\ asked' = {}
    /\ selected' = None
    /\ returned' = FALSE
    /\ UNCHANGED <<fcVars, outVars, peerVars, snapVars>>

\* the questionnaire loop adds no fact: the question was skipped, or None came back
SkipSelected ==
    /\ returned
    /\ asked' = {}
    /\ selected' = None
    /\ returned' = FALSE
    /\ UNCHANGED <<facts, conclusions>>
    /\ UNCHANGED <<fcVars, outVars, peerVars, snapVars>>

\* InferenceEngine.recommend_fasteners: infer, then the fasteners of the
\* catalog that match, in catalog order (the suggestions that go with each
\* fastener are read-only lookups and are left out of the list)
recommend_fasteners(e) ==
    With(infer(e), LAMBDA e1 :
        [engine |-> e1,
         result |-> SelectSeq(kb_fasteners, LAMBDA f : matches_fastener(e1, f))])

\* InferenceEngine.recommend_fasteners on the session's engine
RecommendFasteners ==
    /\ ~returned
    /\ NoResult
    /\ ConclusionItems(conclusions) < MaxConclusionItems
    /\ \E r \in {recommend_fasteners(Live)} :
          /\ facts' = r.engine.facts
          /\ conclusions' = r.engine.conclusions
          /\ recommended' = List(r.result)
    /\ UNCHANGED <<asked, selected, returned>>
    /\ UNCHANGED <<fcVars, peerVars, snapVars>>

\* display_recommendations: the front end is done with the list
DisplayRecommendations ==
    /\ ~NoResult
    /\ pc # "result"
    /\ recommended' = None
    /\ UNCHANGED <<ieVars, peerVars, snapVars>>
    /\ UNCHANGED fcVars

NextIE ==
    \/ AddFact \/ Infer \/ Reset \/ SelectNextQuestion \/ AnswerSelected \/ SkipSelected
    \/ RecommendFasteners \/ DisplayRecommendations

(* ----------------------------------------------------------------------- *)
(* Specifications                                                          *)
(* ----------------------------------------------------------------------- *)
\* a session of the typed-field design; no InferenceEngine is in use
Init == InitFC /\ InitIE /\ InitResult /\ InitAlone

Next == NextFC

Spec == Init /\ [][Next]_vars

\* no InputModel or ForwardChainingEngine is in use
NoFC ==
    /\ rules = <<>>
    /\ task = create_empty_task
    /\ shared = TRUE
    /\ answers = <<>>
    /\ fired_rules = {}
    /\ pc = "idle"
    /\ idx = 0
    /\ changed = FALSE
    /\ passes = 0
    /\ fire_count = [r \in RuleIds |-> 0]
    /\ last_fired = ""
    /\ settled = FALSE

InitSessionIE == NoFC /\ InitIE /\ InitResult /\ InitAlone

\* a ProblemSolvingModel and a task handed to it; no rule base in use
InitMatcher ==
    /\ task \in MatcherTasks
    /\ rules = <<>>
    /\ shared = TRUE
    /\ answers = <<>>
    /\ fired_rules = {}
    /\ pc = "idle"
    /\ idx = 0
    /\ changed = FALSE
    /\ passes = 0
    /\ fire_count = [r \in RuleIds |-> 0]
    /\ last_fired = ""
    /\ settled = FALSE
    /\ InitIE
    /\ InitResult /\ InitAlone

\* the process runs a session of one design or of the other
InitEither == Init \/ InitSessionIE

NextEither == (rules # <<>> /\ NextFC) \/ (rules = <<>> /\ NextIE)

SpecEither == InitEither /\ [][NextEither]_vars

\* the matcher as a function of the task
SpecMatcher == InitMatcher /\ [][NextMatcher]_vars

\* a session of the typed-field design that is saved and rebuilt at will
SpecSnapshot == Init /\ [][NextSnapshot]_vars

\* rule specifications with a path that the schema of the task does not have,
\* and one without: a field of Environment that does not exist, a field of
\* DerivedRequirements that does not exist, "any" below Environment
PathRulePool ==
    << [id         |-> "unknown_condition_field",
        conditions |-> << Cond(<<"environment", "humidity">>, Str("high")) >>,
        effects    |-> << Eff(Req("min_water_resistance"), Str("good")) >>],
       [id         |-> "unknown_effect_field",
        conditions |-> << Cond(<<"load", "vibration">>, Bool(TRUE)) >>,
        effects    |-> << Eff(Req("min_vibration"), Str("good")) >>],
       [id         |-> "any_outside_material_pair",
        conditions |-> << Cond(<<"environment", "any", "moisture">>, Str("outdoor")) >>,
        effects    |-> << Eff(Req("min_uv_resistance"), Str("good")) >>],
       RulePool[1] >>

\* the catalogs of at most MaxRules different specifications of that pool
PathCatalogs ==
    {c \in UNION {[1..n -> SeqToSet(PathRulePool)] : n \in 1..MaxRules} :
        \A i, j \in 1..Len(c) : i # j => c[i] # c[j]}

\* InputModel.__init__ and ForwardChainingEngine.__init__ over such a catalog
InitPaths ==
    /\ rules \in PathCatalogs
    /\ task = create_empty_task
    /\ shared = TRUE
    /\ answers = <<>>
    /\ fired_rules = {}
    /\ pc = "idle"
    /\ idx = 0
    /\ changed = FALSE
    /\ passes = 0
    /\ fire_count = [r \in {PathRulePool[i].id : i \in 1..Len(PathRulePool)} |-> 0]
    /\ last_fired = ""
    /\ settled = FALSE
    /\ InitIE /\ InitResult /\ InitAlone

NextPaths == AnswerQuestion \/ InferCall \/ InferRule \/ InferPassEnd

\* a session of the typed-field design over a catalog with unresolvable paths
SpecPaths == InitPaths /\ [][NextPaths]_vars

\* rule specifications that exercise the forms a condition and an effect on a
\* set field can take: one symbol or a list as the value of a set effect, one
\* symbol or a list of acceptable values as expected, on a scalar path and
\* below any, and a condition of two pairs
SemanticsRulePool ==
    << [id         |-> "vibration_adhesive",
        conditions |-> << Cond(<<"load", "vibration">>, Bool(TRUE)) >>,
        effects    |-> << Eff(Req("allowed_categories"), Str("adhesive")) >>],
       RulePool[4],
       [id         |-> "brittle_or_fragile",
        conditions |-> << Cond(<<"materials", "any", "brittleness">>,
                               List(<<Str("high"), Str("medium")>>)) >>,
        effects    |-> << Eff(Req("excluded_categories"), List(<<Str("thermal")>>)) >>],
       RulePool[5],
       [id         |-> "outdoor_vibration",
        conditions |-> << Cond(<<"environment", "moisture">>, Str("outdoor")),
                          Cond(<<"load", "vibration">>, Bool(TRUE)) >>,
        effects    |-> << Eff(Req("allowed_rigidities"),
                              List(<<Str("rigid"), Str("semi_flexible")>>)) >>] >>

\* the catalogs of at most MaxRules different specifications of that pool
SemanticsCatalogs ==
    {c \in UNION {[1..n -> SeqToSet(SemanticsRulePool)] : n \in 1..MaxRules} :
        \A i, j \in 1..Len(c) : i # j => c[i] # c[j]}

\* InputModel.__init__ and ForwardChainingEngine.__init__ over such a catalog
InitSemantics ==
    /\ rules \in SemanticsCatalogs
    /\ task = create_empty_task
    /\ shared = TRUE
    /\ answers = <<>>
    /\ fired_rules = {}
    /\ pc = "idle"
    /\ idx = 0
    /\ changed = FALSE
    /\ passes = 0
    /\ fire_count = [r \in {SemanticsRulePool[i].id : i \in 1..Len(SemanticsRulePool)} |-> 0]
    /\ last_fired = ""
    /\ settled = FALSE
    /\ InitIE /\ InitResult /\ InitAlone

NextSemantics ==
    AnswerQuestion \/ InferCall \/ InferRule \/ InferPassEnd \/ SnapshotRestore

\* a session of the typed-field design over a catalog of those rules, saved
\* and rebuilt at will
SpecSemantics == InitSemantics /\ [][NextSemantics]_vars

\* rule specifications whose firing order shows in the task: the second rule
\* reads what the first writes, both write one boolean field, the third
\* depends on neither
OrderRulePool ==
    << [id         |-> "vibration_strength",
        conditions |-> << Cond(<<"load", "vibration">>, Bool(TRUE)) >>,
        effects    |-> << Eff(Req("min_tensile_strength"), Str("high")),
                          Eff(<<"constraints", "precision_required">>, Bool(TRUE)) >>],
       [id         |-> "tensile_needs_shear",
        conditions |-> << Cond(Req("min_tensile_strength"), Str("high")) >>,
        effects    |-> << Eff(Req("min_shear_strength"), Str("moderate")),
                          Eff(<<"constraints", "precision_required">>, Bool(FALSE)) >>],
       [id         |-> "outdoor_sealing",
        conditions |-> << Cond(<<"environment", "moisture">>, Str("outdoor")) >>,
        effects    |-> << Eff(Req("min_water_resistance"), Str("good")) >>] >>

\* the catalogs of at most MaxRules different specifications of that pool
OrderCatalogs ==
    {c \in UNION {[1..n -> SeqToSet(OrderRulePool)] : n \in 1..MaxRules} :
        \A i, j \in 1..Len(c) : i # j => c[i] # c[j]}

\* InputModel.__init__ and ForwardChainingEngine.__init__ over such a catalog
InitOrder ==
    /\ rules \in OrderCatalogs
    /\ task = create_empty_task
    /\ shared = TRUE
    /\ answers = <<>>
    /\ fired_rules = {}
    /\ pc = "idle"
    /\ idx = 0
    /\ changed = FALSE
    /\ passes = 0
    /\ fire_count = [r \in {OrderRulePool[i].id : i \in 1..Len(OrderRulePool)} |-> 0]
    /\ last_fired = ""
    /\ settled = FALSE
    /\ InitIE /\ InitResult /\ InitAlone

NextOrder == AnswerQuestion \/ InferCall \/ InferRule \/ InferPassEnd

\* a session of the typed-field design over a catalog of those rules
SpecOrder == InitOrder /\ [][NextOrder]_vars

\* rule specifications whose effect values are not symbols of the field they
\* are written to: an unknown rigidity name on a set, a strength name on a
\* resistance field, free text on an ordinal field, a good effect followed
\* by a bad one; the last rule is a sound one
ValueRulePool ==
    << [id         |-> "unknown_rigidity",
        conditions |-> << Cond(<<"load", "vibration">>, Bool(TRUE)) >>,
        effects    |-> << Eff(Req("allowed_rigidities"), List(<<Str("bendy")>>)) >>],
       [id         |-> "strength_on_resistance",
        conditions |-> << Cond(<<"load", "vibration">>, Bool(TRUE)) >>,
        effects    |-> << Eff(Req("min_water_resistance"), Str("high")) >>],
       [id         |-> "free_text_strength",
        conditions |-> << Cond(<<"environment", "moisture">>, Str("outdoor")) >>,
        effects    |-> << Eff(Req("min_tensile_strength"), Str("strong")) >>],
       [id         |-> "shear_then_free_text",
        conditions |-> << Cond(<<"load", "vibration">>, Bool(TRUE)) >>,
        effects    |-> << Eff(Req("min_shear_strength"), Str("high")),
                          Eff(Req("min_tensile_strength"), Str("strong")) >>],
       [id         |-> "outdoor_sealing",
        conditions |-> << Cond(<<"environment", "moisture">>, Str("outdoor")) >>,
        effects    |-> << Eff(Req("min_water_resistance"), Str("good")) >>] >>

\* the catalogs of at most MaxRules different specifications of that pool
ValueCatalogs ==
    {c \in UNION {[1..n -> SeqToSet(ValueRulePool)] : n \in 1..MaxRules} :
        \A i, j \in 1..Len(c) : i # j => c[i] # c[j]}

\* InputModel.__init__ and ForwardChainingEngine.__init__ over such a catalog
InitValues ==
    /\ rules \in ValueCatalogs
    /\ task = create_empty_task
    /\ shared = TRUE
    /\ answers = <<>>
    /\ fired_rules = {}
    /\ pc = "idle"
    /\ idx = 0
    /\ changed = FALSE
    /\ passes = 0
    /\ fire_count = [r \in {ValueRulePool[i].id : i \in 1..Len(ValueRulePool)} |-> 0]
    /\ last_fired = ""
    /\ settled = FALSE
    /\ InitIE /\ InitResult /\ InitAlone

NextValues == AnswerQuestion \/ InferCall \/ InferRule \/ InferPassEnd

\* a session of the typed-field design over a catalog of those rules
SpecValues == InitValues /\ [][NextValues]_vars

\* rule specifications that write the same requirement with different
\* values: two minima for water resistance, in either order; an exclusion
\* and a minimum for tensile strength beside them
MinimaRulePool ==
    << [id         |-> "outdoor_sealing",
        conditions |-> << Cond(<<"environment", "moisture">>, Str("outdoor")) >>,
        effects    |-> << Eff(Req("min_water_resistance"), Str("good")) >>],
       RulePool[5],
       RulePool[4],
       [id         |-> "vibration_tensile",
        conditions |-> << Cond(<<"load", "vibration">>, Bool(TRUE)) >>,
        effects    |-> << Eff(Req("min_tensile_strength"), Str("high")) >>] >>

\* InputModel.__init__ and ForwardChainingEngine.__init__ over a catalog of
\* at most MaxRules different specifications of that pool
InitMinima ==
    /\ rules \in {c \in UNION {[1..n -> SeqToSet(MinimaRulePool)] : n \in 1..MaxRules} :
                     \A i, j \in 1..Len(c) : i # j => c[i] # c[j]}
    /\ task = create_empty_task
    /\ shared = TRUE
    /\ answers = <<>>
    /\ fired_rules = {}
    /\ pc = "idle"
    /\ idx = 0
    /\ changed = FALSE
    /\ passes = 0
    /\ fire_count = [r \in {MinimaRulePool[i].id : i \in 1..Len(MinimaRulePool)} |-> 0]
    /\ last_fired = ""
    /\ settled = FALSE
    /\ InitIE /\ InitResult /\ InitAlone

\* a session of the typed-field design over a catalog of those rules
SpecMinima == InitMinima /\ [][NextValues]_vars

\* InputModel._get_question: an unknown id raises ValueError
get_question(question_id) ==
    LET found == SelectSeq(Questions, LAMBDA q : q.id = question_id)
    IN  IF found = <<>> THEN Raised("ValueError") ELSE Head(found)

\* InputModel.answer_question, lines 124-126: the question is looked up, the
\* answer is stored in self.answers, then _apply_answer is called; the result
\* is the answers and the task when the call returns or raises
answer_question(ans, t, sh, question_id, value) ==
    LET question == get_question(question_id)
    IN  IF question = Raised("ValueError")
        THEN [answers |-> ans, task |-> t, raised |-> TRUE]
        ELSE LET r == apply_answer(t, sh, question.attribute, value)
             IN  [answers |-> Put(ans, question_id, value),
                  task    |-> r.task,
                  raised  |-> r.raised]

\* InputModel.get_next_question: the first question of the catalog that has
\* no answer (the questions of the model have no ask_if), or None
get_next_question(ans) ==
    LET open == SelectSeq(Questions, LAMBDA q : q.id \notin DOMAIN ans)
    IN  IF open = <<>> THEN None ELSE Str(Head(open).id)

\* an answer no question offers, and an id no question has
OffMenu == {"plasma"}

UnknownIds == {"no_such_question"}

\* InputModel.answer_question called with an id or a value the front end
\* does not offer; the caller goes on after the exception, if there is one
AnswerOffMenu ==
    /\ pc = "idle"
    /\ \E id \in {Questions[i].id : i \in 1..Len(Questions)} \cup UnknownIds :
         \E v \in OffMenu :
            LET r == answer_question(answers, task, shared, id, Str(v))
            IN  /\ answers' = r.answers
                /\ task' = r.task
                /\ state_dict' = seen_in_dict(state_dict, r.answers)
                /\ settled' = (settled /\ r.task = task)
    /\ UNCHANGED <<rules, shared, fired_rules, pc, idx, changed, passes,
                   fire_count, last_fired>>
    /\ UNCHANGED <<ieVars, outVars, peerVars>>

\* the caller takes the model's state: InputModel.get_state
GetState ==
    /\ pc = "idle"
    /\ state_dict' = input_get_state(answers)
    /\ UNCHANGED <<fcVars, ieVars, outVars, peerVars>>

\* answers dictionaries a caller builds and hands to restore_state; they have
\* one entry at most, so the order of items() does not show
StateDicts ==
    { <<>>,
      [q \in {"vibration"} |-> Str("true")],
      [q \in {"environment_moisture"} |-> Str("outdoor")] }

RECURSIVE apply_answers(_, _, _, _)
\* the for loop of restore_state, lines 70-72, over the ids in the order ids
apply_answers(t, sh, ans, ids) ==
    IF ids = <<>> THEN [task |-> t, raised |-> FALSE]
    ELSE LET r == apply_answer(t, sh, get_question(Head(ids)).attribute, ans[Head(ids)])
         IN  IF r.raised THEN r ELSE apply_answers(r.task, sh, ans, Tail(ids))

\* InputModel.restore_state, lines 63-72, with a dictionary of the caller's:
\* self.answers becomes the dictionary's "answers" object and every answer
\* is applied to the task
RestoreState ==
    /\ pc = "idle"
    /\ \E d \in StateDicts :
         LET r == apply_answers(task, shared, d, SetToSeq(DOMAIN d))
         IN  /\ answers' = d
             /\ task' = r.task
             /\ state_dict' = [cls |-> "dict", value |-> [answers |-> d],
                               holds |-> "self.answers"]
             /\ settled' = (settled /\ r.task = task)
    /\ UNCHANGED <<rules, shared, fired_rules, pc, idx, changed, passes,
                   fire_count, last_fired>>
    /\ UNCHANGED <<ieVars, outVars, peerVars>>

\* InputModel.__init__ alone: no rule base in use
InitState ==
    /\ task = create_empty_task
    /\ rules = <<>>
    /\ shared = TRUE
    /\ answers = <<>>
    /\ fired_rules = {}
    /\ pc = "idle"
    /\ idx = 0
    /\ changed = FALSE
    /\ passes = 0
    /\ fire_count = [r \in RuleIds |-> 0]
    /\ last_fired = ""
    /\ settled = FALSE
    /\ InitIE
    /\ InitResult /\ InitAlone

NextState == AnswerQuestion \/ AnswerOffMenu \/ GetState \/ RestoreState

\* an InputModel answered through its public API, its state taken and given
SpecState == InitState /\ [][NextState]_vars

\* what a session owns: its InputModel's task and answers, its engine's
\* fired_rules, and where its last infer stands
Session(t, sh, ans, fired, at, i, chg, n, count, last, done) ==
    [cls |-> "Session",
     value |-> [task |-> t, shared |-> sh, answers |-> ans, fired_rules |-> fired,
                pc |-> at, idx |-> i, changed |-> chg, passes |-> n,
                fire_count |-> count, last_fired |-> last, settled |-> done]]

\* the rule base two sessions are built on: a rule that writes a set field
\* and a rule that writes ordinal fields
PairCatalogs == {<<RulePool[4], RulePool[1]>>}

\* the questions whose answers the rules of PairCatalogs read
PairQuestions ==
    {q \in 1..Len(Questions) : Questions[q].id \in {"material_a_type", "vibration"}}

\* one of those questions is answered in the running session
AnswerPairQuestion == Answer(PairQuestions)

\* two InputModels and two ForwardChainingEngines over one RuleBase
InitPair ==
    /\ InitFC
    /\ rules \in PairCatalogs
    /\ InitIE /\ InitResult
    /\ other = Session(create_empty_task, TRUE, <<>>, {}, "idle", 0, FALSE, 0,
                       [r \in RuleIds |-> 0], "", FALSE)
    /\ state_dict = None

\* the single thread turns from one session to the other between two calls
Switch ==
    /\ pc \in {"idle", "aborted"}
    /\ other.cls = "Session"
    /\ other' = Session(task, shared, answers, fired_rules, pc, idx, changed,
                        passes, fire_count, last_fired, settled)
    /\ task' = other.value.task
    /\ shared' = other.value.shared
    /\ answers' = other.value.answers
    /\ fired_rules' = other.value.fired_rules
    /\ pc' = other.value.pc
    /\ idx' = other.value.idx
    /\ changed' = other.value.changed
    /\ passes' = other.value.passes
    /\ fire_count' = other.value.fire_count
    /\ last_fired' = other.value.last_fired
    /\ settled' = other.value.settled
    /\ UNCHANGED rules
    /\ UNCHANGED <<ieVars, outVars, snapVars>>

NextPair == AnswerPairQuestion \/ InferCall \/ InferRule \/ InferPassEnd \/ Switch

\* two sessions on one catalog, operated on in any interleaving of calls
SpecPair == InitPair /\ [][NextPair]_vars

\* a session of the list-accumulating design
SpecIE == InitSessionIE /\ [][NextIE]_vars

(* ----------------------------------------------------------------------- *)
(* Claims about the typed-field design                                     *)
(* ----------------------------------------------------------------------- *)
\* index of an ordinal requirement field in its own scale
OrdIdx(t, f) ==
    IF f \in StrengthFields
    THEN get_strength_idx(t.requirements[f])
    ELSE get_resistance_idx(t.requirements[f])

\* a step of a running infer call
InferStep == pc = "for" \/ pc' = "for"

\* C1: infer is idempotent at the fixpoint. While the last infer call has
\* returned and nothing has changed the task since (settled), no step of a
\* further infer call changes the task (facts and derived requirements) or
\* the fired-rule set.
C1_InferIdempotent ==
    [][(settled /\ InferStep) => (task' = task /\ fired_rules' = fired_rules)]_vars

\* a second infer call has run its pass over a non-empty fired set
C1_Witness ==
    /\ settled /\ pc = "for" /\ idx > Len(rules)
    /\ fired_rules # {}
    /\ Len(rules) = 2 /\ Cardinality(fired_rules) = 2

\* the effects of the catalog that target ordinal field f with a value not
\* above the field's current one
WeakerEffects(t, rs) ==
    {e \in UNION {SeqToSet(rs[i].effects) : i \in 1..Len(rs)} :
        /\ Len(e.path) = 2 /\ e.path[1] = "requirements" /\ e.path[2] \in OrdinalFields
        /\ LET f == e.path[2]
               n == IF f \in StrengthFields THEN get_strength_idx(coerce_value(e.value))
                    ELSE get_resistance_idx(coerce_value(e.value))
           IN  n >= 0 /\ n <= OrdIdx(t, f)}

\* C2: monotonicity. No step (a rule firing, an answer, anything) lowers the
\* scale index of any of the seven ordinal fields of DerivedRequirements, and
\* an effect whose value is lower than or equal to the field's current value
\* leaves the task as it is.
C2_OrdinalMonotone ==
    /\ [][\A f \in OrdinalFields : OrdIdx(task', f) >= OrdIdx(task, f)]_vars
    /\ [](\A e \in WeakerEffects(task, rules) :
             ApplyEffect(task, shared, e) = [task |-> task, raised |-> FALSE])

\* the rule asking for low tensile strength ran after the one asking for high
C2_Witness ==
    /\ last_fired = "one_side_access"
    /\ "vibration_load" \in fired_rules
    /\ "one_side_access" \in fired_rules
    /\ task.requirements.min_tensile_strength = Enum("StrengthLevel", "high")

OrdinalAttributes ==
    << <<"tensile_strength", "min_tensile_strength">>,
       <<"shear_strength", "min_shear_strength">>,
       <<"water_resistance", "min_water_resistance">>,
       <<"temperature_resistance", "min_temperature_resistance">>,
       <<"uv_resistance", "min_uv_resistance">>,
       <<"vibration_resistance", "min_vibration_resistance">>,
       <<"chemical_resistance", "min_chemical_resistance">> >>

\* scale index of a fastener's ordinal attribute, in the scale of the minimum
AttrIdx(fastener, p) ==
    IF p[2] \in StrengthFields THEN get_strength_idx(fastener[p[1]])
    ELSE get_resistance_idx(fastener[p[1]])

BelowSomeMinimum(fastener, t) ==
    \E k \in 1..Len(OrdinalAttributes) :
        AttrIdx(fastener, OrdinalAttributes[k]) < OrdIdx(t, OrdinalAttributes[k][2])

\* the checks of the matcher that are not about ordinal attributes
OtherChecksPass(fastener, t) ==
    LET req == t.requirements
    IN  /\ (req.allowed_categories.value = {}
            \/ fastener.category \in req.allowed_categories.value)
        /\ fastener.category \notin req.excluded_categories.value
        /\ (req.allowed_rigidities.value = {}
            \/ fastener.rigidity \in req.allowed_rigidities.value)
        /\ ~(Truthy(t.constraints.one_side_accessable)
             /\ fastener.requires_two_sided_access)

\* C4: matcher soundness. In every reachable task, a fastener with an ordinal
\* attribute strictly below the corresponding derived minimum is rejected,
\* and a fastener none of whose ordinal attributes is below its minimum
\* (equal ones included) is not rejected on account of the ordinal checks.
C4_MatcherSound ==
    \A k \in 1..Len(Fasteners) :
        LET below == BelowSomeMinimum(Fasteners[k], task)
            accepted == fastener_satisfies_requirements(Fasteners[k], task)
        IN  /\ below => ~accepted
            /\ (~below /\ OtherChecksPass(Fasteners[k], task)) => accepted

\* one fastener sits exactly on raised minima and is accepted, another is
\* below one of them and rejected
C4_Witness ==
    /\ task.requirements.min_tensile_strength = Enum("StrengthLevel", "high")
    /\ task.requirements.min_vibration_resistance = Enum("ResistanceLevel", "good")
    /\ \E k \in 1..Len(Fasteners) :
          /\ Fasteners[k].tensile_strength = task.requirements.min_tensile_strength
          /\ Fasteners[k].vibration_resistance = task.requirements.min_vibration_resistance
          /\ fastener_satisfies_requirements(Fasteners[k], task)
    /\ \E k \in 1..Len(Fasteners) :
          /\ BelowSomeMinimum(Fasteners[k], task)
          /\ ~fastener_satisfies_requirements(Fasteners[k], task)

\* no rule outside fired_rules has a condition that holds on the task
AtFixpoint(t, fired, rs) ==
    \A i \in 1..Len(rs) :
        rs[i].id \notin fired => condition(t, rs[i].conditions) # Bool(TRUE)

\* position of a running infer call: passes started, then place in the pass
InferMeasure == passes * (Len(rules) + 2) + idx

\* C5: infer terminates at a fixpoint. Every step inside infer advances its
\* position, which is bounded: at most Len(rules) + 1 passes of at most
\* Len(rules) iterations; and in the state in which infer returns no rule
\* outside fired_rules has a condition that holds on the task.
C5_InferTerminatesAtFixpoint ==
    [][/\ (pc = "for" /\ pc' = "for") => InferMeasure' > InferMeasure
       /\ pc' = "for" => (passes' <= Len(rules) + 1 /\ idx' <= Len(rules) + 1)
       /\ (pc = "for" /\ pc' = "idle") =>
             (AtFixpoint(task', fired_rules', rules) /\ passes' <= Len(rules) + 1)]_vars

\* an infer call that needed every one of its Len(rules) + 1 passes has returned
C5_Witness ==
    /\ pc = "idle" /\ settled
    /\ Len(rules) >= 2
    /\ passes = Len(rules) + 1
    /\ AtFixpoint(task, fired_rules, rules)

\* both Material objects of the task carry a material type
BothMaterialsKnown(t) ==
    /\ t.materials.material_a.material_type # None
    /\ t.materials.material_b.material_type # None

\* C11 as stated: material compatibility. In every task in which both material
\* types are known, every fastener the matcher accepts, and so every fastener
\* of the recommendation, lists the type of material_b in compatible_materials.
C11_MaterialCompatibility ==
    BothMaterialsKnown(task) =>
        \A k \in 1..Len(evaluate_candidates(task)) :
            task.materials.material_b.material_type.value
                \in evaluate_candidates(task)[k].compatible_materials

\* the fastener is in the list the caller was handed
Recommends(fastener) ==
    ~NoResult /\ fastener \in SeqToSet(recommended.value)

CategoryPasses(fastener, t) ==
    /\ fastener.category \notin t.requirements.excluded_categories.value
    /\ (t.requirements.allowed_categories.value = {}
        \/ fastener.category \in t.requirements.allowed_categories.value)

RigidityPasses(fastener, t) ==
    \/ t.requirements.allowed_rigidities.value = {}
    \/ fastener.rigidity \in t.requirements.allowed_rigidities.value

PermanencePasses(fastener, t) ==
    \/ t.requirements.allowed_permanence.value = {}
    \/ fastener.permanence \in t.requirements.allowed_permanence.value

AccessPasses(fastener, t) ==
    ~(Truthy(t.constraints.one_side_accessable) /\ fastener.requires_two_sided_access)

\* C12 as stated: rigidity and permanence. A fastener in the list the matcher
\* returns has its rigidity in allowed_rigidities when that set is non-empty
\* and its permanence in allowed_permanence when that set is non-empty; with
\* both sets empty neither attribute keeps a fastener out of the list.
C12_RigidityPermanenceFilter ==
    ~NoResult =>
        \A k \in 1..Len(Fasteners) :
            /\ Recommends(Fasteners[k])
                  => (RigidityPasses(Fasteners[k], task)
                      /\ PermanencePasses(Fasteners[k], task))
            /\ (/\ task.requirements.allowed_rigidities.value = {}
                /\ task.requirements.allowed_permanence.value = {}
                /\ CategoryPasses(Fasteners[k], task)
                /\ ~BelowSomeMinimum(Fasteners[k], task)
                /\ AccessPasses(Fasteners[k], task))
                  => Recommends(Fasteners[k])

\* C13: category filtering. A fastener whose category is in
\* excluded_categories is not in the list, allowed or not; neither is one
\* whose category is missing from a non-empty allowed_categories; with both
\* sets empty a fastener that passes the other checks is in the list.
C13_CategoryFilter ==
    ~NoResult =>
        \A k \in 1..Len(Fasteners) :
            LET f   == Fasteners[k]
                req == task.requirements
            IN  /\ f.category \in req.excluded_categories.value => ~Recommends(f)
                /\ (req.allowed_categories.value # {}
                    /\ f.category \notin req.allowed_categories.value) => ~Recommends(f)
                /\ (/\ req.allowed_categories.value = {}
                    /\ req.excluded_categories.value = {}
                    /\ RigidityPasses(f, task)
                    /\ ~BelowSomeMinimum(f, task)
                    /\ AccessPasses(f, task)) => Recommends(f)

\* mechanical is both allowed and excluded: the list holds adhesives only
C13_Witness ==
    /\ ~NoResult
    /\ task.requirements.allowed_categories.value = {Str("mechanical"), Str("adhesive")}
    /\ task.requirements.excluded_categories.value = {Str("mechanical")}
    /\ recommended.value # <<>>
    /\ \A i \in 1..Len(recommended.value) :
          recommended.value[i].category = Str("adhesive")

\* C14: one-sided access. While one_side_accessable is true no fastener that
\* requires two-sided access is in the list; while it is false a fastener
\* that passes the other checks is in the list whatever its access needs.
C14_OneSidedAccess ==
    ~NoResult =>
        \A k \in 1..Len(Fasteners) :
            LET f == Fasteners[k]
            IN  /\ (Truthy(task.constraints.one_side_accessable)
                    /\ f.requires_two_sided_access) => ~Recommends(f)
                /\ (/\ ~Truthy(task.constraints.one_side_accessable)
                    /\ CategoryPasses(f, task)
                    /\ RigidityPasses(f, task)
                    /\ ~BelowSomeMinimum(f, task)) => Recommends(f)

\* with one side accessible and nothing else asked for, the bolt that needs
\* both sides is left out and the one that does not is listed
C14_Witness ==
    /\ ~NoResult
    /\ Truthy(task.constraints.one_side_accessable)
    /\ task.requirements = DerivedRequirements
    /\ \E k \in 1..Len(Fasteners) :
          Fasteners[k].requires_two_sided_access /\ ~Recommends(Fasteners[k])
    /\ \E k \in 1..Len(Fasteners) :
          /\ ~Fasteners[k].requires_two_sided_access
          /\ Fasteners[k].category = Str("mechanical")
          /\ Recommends(Fasteners[k])

(* ----------------------------------------------------------------------- *)
(* Claims about the list-accumulating design                               *)
(* ----------------------------------------------------------------------- *)
\* a step in which select_next_question is called and returns
SelectStep == ~returned /\ returned'

BothMaterials(f) == "material_type" \in DOMAIN f /\ "material_type_2" \in DOMAIN f

\* the fasteners the matcher accepts in the session's state, and their categories
Surviving == remaining_fasteners(Live)

SurvivingCategories == remaining_categories(Surviving)

QuestionOf(qid) == CHOOSE q \in SeqToSet(kb_questions) : q.id = qid

Coverage(qid) == question_category_coverage(QuestionOf(qid), SurvivingCategories)

CanDiscriminate(qid) == question_can_discriminate(Heap(Live), QuestionOf(qid), Surviving).result

ScoreOf(qid) == normalized_question_score(Heap(Live), QuestionOf(qid)).score

C10_SimulationIsolated ==
    /\ [][SelectStep => (facts' = facts /\ conclusions' = conclusions)]_vars
    /\ [](~returned =>
            \A subset \in {Surviving} : \A i \in 1..Len(kb_questions) :
               \A v \in SeqToSet(possible_answers(kb_questions[i])) :
                  simulate_answer_on_subset(Heap(Live), kb_questions[i].id, v,
                                            subset).heap["self"] = Live)

\* a call that simulated answers came back to a session holding conclusions,
\* and one of the simulated answers makes a rule fire on the copy
C10_Witness ==
    /\ returned /\ selected # None
    /\ BothMaterials(facts)
    /\ conclusions # <<>>
    /\ \E i \in 1..Len(kb_questions) :
          \E v \in SeqToSet(possible_answers(kb_questions[i])) :
             /\ kb_questions[i].id \notin DOMAIN facts
             /\ infer(add_fact(Live, kb_questions[i].id, v)).conclusions
                   # infer(Live).conclusions


(* ----------------------------------------------------------------------- *)
(* Claims about the recommendation of either design                        *)
(* ----------------------------------------------------------------------- *)
\* every rule whose conditions hold on the facts has each item of its
\* conclusion in the conclusions of the engine
ConclusionsDrawn(e) ==
    \A i \in 1..Len(kb_rules) :
        evaluate_rule(e, kb_rules[i]) =>
            \A j \in 1..Len(kb_rules[i].conclusion) :
                LET it == kb_rules[i].conclusion[j]
                IN  /\ it.key \in DOMAIN e.conclusions
                    /\ IF it.value.cls = "list"
                       THEN SeqToSet(it.value.value) \subseteq SeqToSet(e.conclusions[it.key])
                       ELSE it.value \in SeqToSet(e.conclusions[it.key])

\* C15: recommend first runs inference to a fixpoint and then returns exactly
\* the catalog items the matcher accepts, in catalog order. While the list
\* ProblemSolvingModel.recommend returned is held, no unfired rule has a
\* condition that holds on the task and the list is the catalog filtered by
\* the matcher on that task; while the list recommend_fasteners returned is
\* held, the conclusion of every rule the facts satisfy is in conclusions and
\* the list is the catalog filtered by matches_fastener on that engine.
C15_RecommendAfterInference ==
    /\ (rules # <<>> /\ pc = "result") =>
          /\ AtFixpoint(task, fired_rules, rules)
          /\ recommended.cls = "list"
          /\ recommended.value =
                SelectSeq(Fasteners, LAMBDA f : fastener_satisfies_requirements(f, task))
    /\ (rules = <<>> /\ ~NoResult) =>
          /\ ConclusionsDrawn(Live)
          /\ recommended.cls = "list"
          /\ recommended.value =
                SelectSeq(kb_fasteners, LAMBDA f : matches_fastener(Live, f))

\* recommend has returned on a task whose requirements rules have raised: the
\* list is not empty, is shorter than the catalog, and differs from the one
\* the matcher gives on the task without its derived requirements
C15_Witness ==
    /\ rules # <<>> /\ pc = "result"
    /\ fired_rules # {}
    /\ recommended.value # <<>>
    /\ Len(recommended.value) < Len(Fasteners)
    /\ recommended.value #
          evaluate_candidates([task EXCEPT !.requirements = DerivedRequirements])


(* ----------------------------------------------------------------------- *)
(* Claims about the facts of the list-accumulating design                  *)
(* ----------------------------------------------------------------------- *)
\* the (question_id, value) pairs add_fact is called with
FactInputs ==
    UNION {{<<kb_questions[i].id, v>> : v \in SeqToSet(possible_answers(kb_questions[i]))} :
              i \in 1..Len(kb_questions)}

\* C16: add_fact(question_id, value) sets facts[question_id] to value, whether
\* or not the key had a value, leaves every other fact as it was, and leaves
\* conclusions as they were. Stated of every call on every reachable engine,
\* and of every step of the session that adds a fact.
C16_AddFactFrame ==
    /\ [][(AddFact \/ AnswerSelected) =>
             /\ conclusions' = conclusions
             /\ \E in \in FactInputs :
                   /\ in[1] \in DOMAIN facts' /\ facts'[in[1]] = in[2]
                   /\ DOMAIN facts' = DOMAIN facts \cup {in[1]}
                   /\ \A k \in DOMAIN facts \ {in[1]} : facts'[k] = facts[k]]_vars
    /\ [](\A in \in FactInputs :
             \E e \in {add_fact(Live, in[1], in[2])} :
                /\ e.facts[in[1]] = in[2]
                /\ DOMAIN e.facts = DOMAIN facts \cup {in[1]}
                /\ \A k \in DOMAIN facts \ {in[1]} : e.facts[k] = facts[k]
                /\ e.conclusions = conclusions)

\* the flexibility fact was overwritten after inference had run on its first
\* value: the conclusion of flexible_joint is still there, the fact is now
\* False, and another fact is untouched
C16_Witness ==
    /\ "flexibility" \in DOMAIN facts
    /\ facts["flexibility"] = Bool(FALSE)
    /\ "exclude_categories" \in DOMAIN conclusions
    /\ Cardinality(DOMAIN facts) >= 2

\* C17: reset returns the session to its baseline. Whatever add_fact, infer,
\* recommend_fasteners and select_next_question calls came before, reset
\* leaves facts and conclusions empty: the engine equals a freshly
\* constructed one, so every later operation gives what it gives there.
C17_ResetToBaseline ==
    /\ [][Reset => (facts' = NewEngine.facts /\ conclusions' = NewEngine.conclusions)]_vars
    /\ [](reset(Live) = NewEngine)

\* reset is about to be called on an engine that holds facts and conclusions
\* and whose recommendation differs from the one of a fresh engine; on the
\* engine reset leaves, the recommendation is that of a fresh engine
C17_Witness ==
    /\ ~returned /\ NoResult
    /\ facts # <<>>
    /\ conclusions # <<>>
    /\ recommend_fasteners(Live).result # recommend_fasteners(NewEngine).result
    /\ recommend_fasteners(reset(Live)) = recommend_fasteners(NewEngine)


(* ----------------------------------------------------------------------- *)
(* Claims about snapshots of the typed-field design                        *)
(* ----------------------------------------------------------------------- *)
\* infer called on a session with that task, object sharing and fired set
InferOn(t, sh, fired) ==
    infer_call(InferState(t, fired, fire_count, last_fired, 0, FALSE, 0), sh, rules)

\* C18 as stated: snapshot round trip. From every session state reached by
\* answering questions and running infer, saving and restoring succeeds, the
\* restored task equals the original, the restored fired set equals the
\* original, a following infer runs the action of no rule that had fired, and
\* later operations (an answer to any question, then infer) give on the
\* restored session what they give on the original.
C18_SnapshotRoundTrip ==
    [][SnapshotRestore =>
          /\ pc' = "idle"
          /\ task' = task
          /\ fired_rules' = fired_rules
          /\ \A id \in fired_rules :
                InferOn(task', shared', fired_rules').fire_count[id] = fire_count[id]
          /\ \A q \in 1..Len(Questions) : \A v \in Questions[q].choices :
                LET original == apply_answer(task, shared, Questions[q].attribute, Str(v))
                    rebuilt  == apply_answer(task', shared', Questions[q].attribute, Str(v))
                IN  /\ rebuilt = original
                    /\ InferOn(rebuilt.task, shared', fired_rules').task
                          = InferOn(original.task, shared, fired_rules).task]_vars


(* ----------------------------------------------------------------------- *)
(* Claims about rule paths                                                 *)
(* ----------------------------------------------------------------------- *)
RECURSIVE PathResolves(_, _)
\* every segment of the path names a field of the object reached so far, and
\* "any" stands only on an object with both material slots
PathResolves(obj, parts) ==
    IF parts = <<>> THEN TRUE
    ELSE IF Head(parts) = "any"
        THEN /\ \A a \in SeqToSet(MaterialSlots) : HasAttr(obj, a)
             /\ \A a \in SeqToSet(MaterialSlots) : PathResolves(obj[a], Tail(parts))
    ELSE HasAttr(obj, Head(parts)) /\ PathResolves(obj[Head(parts)], Tail(parts))

RECURSIVE ReachesBadCondition(_, _)
\* the evaluation of the condition pairs in order comes to a pair whose path
\* does not resolve (the pairs before it hold)
ReachesBadCondition(t, condition_spec) ==
    IF condition_spec = <<>> THEN FALSE
    ELSE IF ~PathResolves(t, Head(condition_spec).path) THEN TRUE
    ELSE /\ PairHolds(Normalize(resolve_path(t, Head(condition_spec).path)),
                      Normalize(Head(condition_spec).expected))
         /\ ReachesBadCondition(t, Tail(condition_spec))

\* evaluating the rule on the task comes to a path that does not resolve: in
\* its condition, or, the condition holding, in one of its effects
ReachesBadPath(t, rule) ==
    \/ ReachesBadCondition(t, rule.conditions)
    \/ /\ ~ReachesBadCondition(t, rule.conditions)
       /\ condition(t, rule.conditions) = Bool(TRUE)
       /\ \E i \in 1..Len(rule.effects) : ~PathResolves(t, rule.effects[i].path)

\* C19 as stated: path resolution fails loudly. Whenever infer evaluates a
\* rule (one that has not fired) and comes to a condition or effect path with
\* a segment that does not name a field of the object reached so far, "any"
\* on an object that is not the material pair included, the evaluation raises
\* and infer is aborted; the rule is not passed over as not matching.
C19_PathsFailLoudly ==
    [][(/\ pc = "for" /\ idx <= Len(rules)
        /\ rules[idx].id \notin fired_rules
        /\ ReachesBadPath(task, rules[idx])) => pc' = "aborted"]_vars


(* ----------------------------------------------------------------------- *)
(* Claims about the freshness of inference                                 *)
(* ----------------------------------------------------------------------- *)
\* C20 as stated: inference is fresh after each new fact. Whenever
\* select_next_question gets as far as computing the surviving fasteners
\* (both mandatory facts are there), that list is the list
\* recommend_fasteners would return for the same facts: it reflects the
\* conclusions of every rule the facts enable, the latest fact included.
C20_SurvivingSetIsFresh ==
    [][(SelectStep /\ \A i \in 1..Len(mandatory) : mandatory[i] \in DOMAIN facts) =>
          remaining_fasteners(Live) = recommend_fasteners(Live).result]_vars


(* ----------------------------------------------------------------------- *)
(* Claims about the questionnaire of the typed-field design                *)
(* ----------------------------------------------------------------------- *)
\* the task with its two category sets emptied: the matcher's other checks
WithoutCategorySets(t) ==
    [t EXCEPT !.requirements.allowed_categories = PySet({}),
              !.requirements.excluded_categories = PySet({})]

\* C21 as stated: the glass-to-metal scenario through the InputModel. Over a
\* rule base that holds the brittleness rule (materials.any.brittleness high
\* adds mechanical to excluded_categories), with the answers material_a =
\* glass and material_b = metal, no other answers and no inference before it,
\* recommend returns no mechanical fastener and returns every adhesive
\* fastener that meets the other requirements.
C21_GlassToMetalScenario ==
    [][(/\ pc = "idle" /\ pc' = "result"
        /\ \E i \in 1..Len(rules) : rules[i].id = "brittle_material"
        /\ \A id \in RuleIds : fire_count[id] = 0
        /\ DOMAIN answers = {"material_a_type", "material_b_type"}
        /\ answers["material_a_type"] = Str("glass")
        /\ answers["material_b_type"] = Str("metal")) =>
          \A k \in 1..Len(Fasteners) :
             /\ Fasteners[k].category = Str("mechanical")
                   => Fasteners[k] \notin SeqToSet(recommended'.value)
             /\ (/\ Fasteners[k].category = Str("adhesive")
                 /\ fastener_satisfies_requirements(Fasteners[k], WithoutCategorySets(task')))
                   => Fasteners[k] \in SeqToSet(recommended'.value)]_vars


(* ----------------------------------------------------------------------- *)
(* Claims about the matcher of the list-accumulating design                *)
(* ----------------------------------------------------------------------- *)
\* the fastener with compatible_materials replaced
WithMaterials(fastener, mats) ==
    [fastener EXCEPT !.properties.compatible_materials = List(mats)]

\* both material facts are in facts
BothMaterialFacts == {"material_type", "material_type_2"} \subseteq DOMAIN facts

C23_FirstMaterialAlone ==
    (/\ "material_type" \in DOMAIN facts
     /\ "material_type_2" \notin DOMAIN facts
     /\ conclusions = <<>>) =>
        \A k \in 1..Len(kb_fasteners) :
            facts["material_type"]
                  \notin SeqToSet(kb_fasteners[k].properties.compatible_materials.value)
               => ~matches_fastener(Live, kb_fasteners[k])


(* ----------------------------------------------------------------------- *)
(* Claims about the filters of select_next_question                        *)
(* ----------------------------------------------------------------------- *)
\* how many of the surviving fasteners still match once the answer is added
\* to the facts and inference has run
SimulatedCount(qid, a) ==
    Len(SelectSeq(Surviving, LAMBDA f : matches_fastener(infer(add_fact(Live, qid, a)), f)))

\* two possible answers of the question leave different numbers of survivors
Discriminates(qid) ==
    \E a, b \in SeqToSet(possible_answers(QuestionOf(qid))) :
        SimulatedCount(qid, a) # SimulatedCount(qid, b)

\* not answered, not in the asked set, applicable to a surviving category
Eligible(qid, asked_questions) ==
    /\ qid \notin DOMAIN facts
    /\ qid \notin asked_questions
    /\ Coverage(qid) > 0

\* C24: discrimination filter. Every question select_next_question returns
\* past the mandatory phase has two possible answers whose simulated
\* surviving counts, over the fasteners that survive now, differ; and when no
\* unasked, unanswered, applicable question has that property, None is
\* returned.
C24_DiscriminationFilter ==
    [][(SelectStep /\ BothMaterials(facts)) =>
          /\ selected' # None => Discriminates(selected'.value)
          /\ (\A qid \in QuestionIds :
                 Eligible(qid, asked') => ~Discriminates(qid)) => selected' = None]_vars

\* None came back with several fasteners left and an eligible question in the
\* catalog: every eligible question gives the same count for all its answers
C24_Witness ==
    /\ returned /\ selected = None
    /\ BothMaterials(facts)
    /\ Len(Surviving) >= 2
    /\ \E qid \in QuestionIds : Eligible(qid, asked)
    /\ \A qid \in QuestionIds : Eligible(qid, asked) => ~Discriminates(qid)


(* ----------------------------------------------------------------------- *)
(* Claims about two sessions on one catalog                                *)
(* ----------------------------------------------------------------------- *)
\* an answer or a step of infer on the running session
SessionStep == other.cls = "Session" /\ ~Switch

\* C25: with two sessions built on the same RuleBase, no answer and no step of
\* infer on one session changes the task or the fired_rules of the other, and
\* no step at all changes the rule specifications
C25_SessionIsolation ==
    [][/\ rules' = rules
       /\ SessionStep => /\ other'.value.task = other.value.task
                         /\ other'.value.fired_rules = other.value.fired_rules]_vars

\* both sessions have fired a rule, and they hold different derived sets and
\* different fired_rules
C25_Witness ==
    /\ other.cls = "Session"
    /\ fired_rules # {}
    /\ other.value.fired_rules # {}
    /\ fired_rules # other.value.fired_rules
    /\ task.requirements.excluded_categories
          # other.value.task.requirements.excluded_categories


(* ----------------------------------------------------------------------- *)
(* Claims about the choice among candidate questions                       *)
(* ----------------------------------------------------------------------- *)
\* position of a question in the catalog
CatalogIndex(qid) == CHOOSE i \in 1..Len(kb_questions) : kb_questions[i].id = qid

\* the questions left after the applicability and discrimination filters
Filtered(asked_questions) ==
    {qid \in QuestionIds : Eligible(qid, asked_questions) /\ Discriminates(qid)}

\* the questions left after the category-coverage filter as well
Finalists(asked_questions) ==
    LET broad == {qid \in Filtered(asked_questions) : Coverage(qid) >= 2}
    IN  IF Cardinality(SurvivingCategories) > 1 /\ broad # {}
        THEN broad ELSE Filtered(asked_questions)

\* (N - mean simulated count) / (N - N/k) as the fraction
\* (N*k - sum of counts) / (N*k - N)
NormalizedScore(qid) ==
    LET options == possible_answers(QuestionOf(qid))
        N == Len(Surviving)
        k == Len(options)
    IN  Score(N * k - SumSeq([j \in 1..k |-> SimulatedCount(qid, options[j])]),
              N * k - N)

\* C26: past the mandatory phase, with at least two fasteners surviving and a
\* question left after the applicability, discrimination and
\* category-coverage filters, select_next_question returns a question of
\* that set whose normalized score no other question of the set exceeds,
\* and every question of the set that comes before it in the catalog has a
\* strictly lower score.
C26_HighestScoreFirstInCatalog ==
    [][(/\ SelectStep /\ BothMaterials(facts) /\ Len(Surviving) >= 2
        /\ Finalists(asked') # {}) =>
          /\ selected' # None
          /\ selected'.value \in Finalists(asked')
          /\ \A qid \in Finalists(asked') :
                /\ ~ScoreLess(NormalizedScore(selected'.value), NormalizedScore(qid))
                /\ CatalogIndex(qid) < CatalogIndex(selected'.value) =>
                      ScoreLess(NormalizedScore(qid), NormalizedScore(selected'.value))]_vars

\* a question came back that shares the highest score with a later question
\* of the set, while an earlier question of the set scores lower
C26_Witness ==
    /\ returned /\ selected # None
    /\ BothMaterials(facts)
    /\ selected.value \in Finalists(asked)
    /\ \E qid \in Finalists(asked) :
          /\ CatalogIndex(qid) > CatalogIndex(selected.value)
          /\ ~ScoreLess(NormalizedScore(qid), NormalizedScore(selected.value))
    /\ \E qid \in Finalists(asked) :
          /\ CatalogIndex(qid) < CatalogIndex(selected.value)
          /\ ScoreLess(NormalizedScore(qid), NormalizedScore(selected.value))


\* C27: category-coverage preference. In a call that gets as far as the
\* candidate list (both material questions answered), when more than one
\* category survives and a question that is left after the applicability and
\* discrimination filters covers two or more surviving categories,
\* select_next_question returns a question, and that question covers two or
\* more surviving categories.
C27_BroadQuestionPreferred ==
    [][(/\ SelectStep /\ BothMaterials(facts)
        /\ Cardinality(SurvivingCategories) > 1
        /\ \E qid \in Filtered(asked') : Coverage(qid) >= 2) =>
          /\ selected' # None
          /\ Coverage(selected'.value) >= 2]_vars

\* a question covering two categories came back although a question of the
\* filtered set that covers one category has a strictly higher score
C27_Witness ==
    /\ returned /\ selected # None
    /\ BothMaterials(facts)
    /\ Cardinality(SurvivingCategories) > 1
    /\ Coverage(selected.value) >= 2
    /\ \E qid \in Filtered(asked) :
          /\ Coverage(qid) = 1
          /\ ScoreLess(NormalizedScore(selected.value), NormalizedScore(qid))


(* ----------------------------------------------------------------------- *)
(* Claims about the semantics of effects and conditions                    *)
(* ----------------------------------------------------------------------- *)
\* the rule at the position of infer's for loop has its action run to the end
\* by this step
RuleRuns ==
    /\ pc = "for" /\ idx <= Len(rules)
    /\ fire_count'[rules[idx].id] = fire_count[rules[idx].id] + 1
    /\ pc' # "aborted"

\* what the effects of a rule on the set field f are to add: the one value
\* of an effect whose value is one symbol, every element of a list
EffectValues(rule, f) ==
    UNION {IF rule.effects[i].value.cls = "list"
           THEN {coerce_value(rule.effects[i].value.value[j]) :
                    j \in 1..Len(rule.effects[i].value.value)}
           ELSE {coerce_value(rule.effects[i].value)} :
           i \in {k \in 1..Len(rule.effects) : rule.effects[k].path = Req(f)}}

\* C28: set effects are a union. When a rule fires, each set field of
\* DerivedRequirements holds afterwards what it held before together with the
\* values of the rule's effects on it: the single value of an effect whose
\* value is one symbol, every element of an effect whose value is a list.
C28_SetEffectsAreUnion ==
    [][RuleRuns =>
         \A f \in SetFields :
            task'.requirements[f].value =
               task.requirements[f].value \cup EffectValues(rules[idx], f)]_vars


\* no pair of the rule's condition goes through the any quantifier
ScalarPaths(rule) ==
    \A i \in 1..Len(rule.conditions) : "any" \notin SeqToSet(rule.conditions[i].path)

\* the value of a field of a sub-object of the task, an enum member by its value
ResolvedValue(t, path) ==
    LET v == t[path[1]][path[2]]
    IN  IF IsEnum(v) THEN Str(v.value) ELSE v

\* a (path, expected) pair on a scalar path: membership when expected is a
\* list, equality otherwise
ScalarPairHolds(t, pair) ==
    IF pair.expected.cls = "list"
    THEN ResolvedValue(t, pair.path) \in SeqToSet(pair.expected.value)
    ELSE ResolvedValue(t, pair.path) = pair.expected

\* infer evaluates the condition of the rule at the position of its for loop
ConditionEvaluated ==
    /\ pc = "for" /\ idx <= Len(rules)
    /\ rules[idx].id \notin fired_rules

\* C29: condition semantics on scalar paths. A rule whose condition has
\* scalar paths only has its action run iff every (path, expected) pair
\* holds, where a pair holds iff the resolved value, an enum member taken by
\* its value, is a member of expected when expected is a list and equals
\* expected otherwise.
C29_ScalarConditionSemantics ==
    [][(ConditionEvaluated /\ ScalarPaths(rules[idx])) =>
          ((fire_count'[rules[idx].id] = fire_count[rules[idx].id] + 1)
             <=> \A i \in 1..Len(rules[idx].conditions) :
                    ScalarPairHolds(task, rules[idx].conditions[i]))]_vars

\* in the running pass the rule of two pairs was passed over with its first
\* pair holding and its second failing, and a rule whose expected is a list
\* has fired on a member
C29_Witness ==
    /\ pc = "for" /\ idx = 2
    /\ rules[1].id = "outdoor_vibration"
    /\ "outdoor_vibration" \notin fired_rules
    /\ ScalarPairHolds(task, rules[1].conditions[1])
    /\ ~ScalarPairHolds(task, rules[1].conditions[2])
    /\ "moisture_baseline" \in fired_rules


\* every pair of the rule's condition is on materials.any.<field>
AnyPaths(rule) ==
    \A i \in 1..Len(rule.conditions) :
        /\ Len(rule.conditions[i].path) = 3
        /\ rule.conditions[i].path[1] = "materials"
        /\ rule.conditions[i].path[2] = "any"

\* a value matches expected: a member of a list of acceptable values, equal
\* to any other expected
Matches(v, expected) ==
    LET value == IF IsEnum(v) THEN Str(v.value) ELSE v
    IN  IF expected.cls = "list" THEN value \in SeqToSet(expected.value)
        ELSE value = expected

\* a pair on materials.any.<field>: one of the two materials matches
AnyPairHolds(t, pair) ==
    \E slot \in {"material_a", "material_b"} :
        Matches(t.materials[slot][pair.path[3]], pair.expected)

\* C30: the any quantifier. A rule whose condition pairs are all on
\* materials.any.<field> has its action run iff for every pair at least one
\* of material_a and material_b has a <field> value that equals expected, or
\* is a member of expected when expected is a list of acceptable values.
C30_AnyQuantifier ==
    [][(ConditionEvaluated /\ AnyPaths(rules[idx])) =>
          ((fire_count'[rules[idx].id] = fire_count[rules[idx].id] + 1)
             <=> \A i \in 1..Len(rules[idx].conditions) :
                    AnyPairHolds(task, rules[idx].conditions[i]))]_vars


(* ----------------------------------------------------------------------- *)
(* Claims about the order of firing within a pass                          *)
(* ----------------------------------------------------------------------- *)
\* the action of the rule with this id is run by this step
Ran(id) == fire_count'[id] = fire_count[id] + 1

\* position of a rule in the rule list
Position(id) == CHOOSE i \in 1..Len(rules) : rules[i].id = id

RuleOf(id) == rules[Position(id)]

\* the plain boolean fields of the task's sub-objects
IsPlainScalar(path) == create_empty_task[path[1]][path[2]].cls = "bool"

\* the effects of the rule are in the task: an ordinal field is at least at
\* the effect's level, a plain scalar field holds the effect's value
EffectsPresent(t, rule) ==
    \A k \in 1..Len(rule.effects) :
        LET e == rule.effects[k]
            v == t[e.path[1]][e.path[2]]
        IN  /\ e.path[2] \in StrengthFields =>
                  IndexOf(STRENGTH_ORDER, v.value) >= IndexOf(STRENGTH_ORDER, e.value.value)
            /\ e.path[2] \in ResistanceFields =>
                  IndexOf(RESISTANCE_ORDER, v.value) >= IndexOf(RESISTANCE_ORDER, e.value.value)
            /\ IsPlainScalar(e.path) => v = e.value

\* C31: firing order within a pass. When a rule j fires in a pass in which a
\* rule i has fired last before it, i comes before j in the rule list, i's
\* effects are in the task j's condition is evaluated on and that condition
\* holds on it, and a plain scalar field written by both holds j's value
\* after j's action.
C31_CatalogOrderWithinPass ==
    [][\A i, j \in {rules[k].id : k \in 1..Len(rules)} :
          (pc = "for" /\ changed /\ last_fired = i /\ Ran(j)) =>
             /\ Position(i) < Position(j)
             /\ EffectsPresent(task, RuleOf(i))
             /\ \A k \in 1..Len(RuleOf(j).conditions) :
                    ScalarPairHolds(task, RuleOf(j).conditions[k])
             /\ \A m \in 1..Len(RuleOf(i).effects), n \in 1..Len(RuleOf(j).effects) :
                    (/\ RuleOf(i).effects[m].path = RuleOf(j).effects[n].path
                     /\ IsPlainScalar(RuleOf(j).effects[n].path)) =>
                       task'[RuleOf(j).effects[n].path[1]][RuleOf(j).effects[n].path[2]]
                          = RuleOf(j).effects[n].value]_vars

\* in the first pass of an infer the second rule of the list has fired on the
\* minimum the first rule derived in that pass, and the boolean both write
\* holds the second rule's value
C31_Witness ==
    /\ pc = "for" /\ passes = 1 /\ idx = 3
    /\ rules[1].id = "vibration_strength" /\ rules[2].id = "tensile_needs_shear"
    /\ fire_count["vibration_strength"] = 1 /\ fire_count["tensile_needs_shear"] = 1
    /\ last_fired = "tensile_needs_shear"
    /\ task.requirements.min_shear_strength = Enum("StrengthLevel", "moderate")
    /\ task.constraints.precision_required = Bool(FALSE)


(* ----------------------------------------------------------------------- *)
(* Claims about repeated inference in the list-accumulating design         *)
(* ----------------------------------------------------------------------- *)
\* the conclusions are those a first infer() draws from the present facts
AfterFirstInfer ==
    /\ conclusions # <<>>
    /\ conclusions = infer([facts |-> facts, conclusions |-> <<>>]).conclusions

\* C32: effects once per session. When the conclusions are those of a first
\* infer() over the present facts, a further infer(), called directly or
\* through recommend_fasteners, leaves the conclusions map unchanged.
C32_InferOncePerSession ==
    [][((Infer \/ RecommendFasteners) /\ AfterFirstInfer) =>
          conclusions' = conclusions]_vars

(* ----------------------------------------------------------------------- *)
(* C33: effect values that are not symbols of the target field             *)
(* ----------------------------------------------------------------------- *)
\* the elements of a set effect's value that are not names of the enum the
\* set holds
ForeignNames(eff) ==
    LET names == IF eff.value.cls = "list"
                 THEN {eff.value.value[i].value : i \in 1..Len(eff.value.value)}
                 ELSE {eff.value.value}
    IN  IF eff.path = Req("allowed_rigidities") THEN names \ RigidityValues
        ELSE IF eff.path = Req("allowed_permanence") THEN names \ PermanenceValues
        ELSE {}

\* the effect's value is not a symbol of the kind of field it is written to
InvalidValue(eff) ==
    \/ ForeignNames(eff) # {}
    \/ /\ Len(eff.path) = 2 /\ eff.path[1] = "requirements"
       /\ \/ eff.path[2] \in StrengthFields
             /\ eff.value.value \notin SeqToSet(STRENGTH_ORDER)
          \/ eff.path[2] \in ResistanceFields
             /\ eff.value.value \notin SeqToSet(RESISTANCE_ORDER)

\* the task holds the effect's value, or one of its foreign names
StoredIn(t, eff) ==
    LET field == t.requirements[eff.path[2]]
    IN  IF field.cls = "set"
        THEN \E n \in ForeignNames(eff) : \E m \in field.value : m.value = n
        ELSE field.value = eff.value.value

\* C33: a rule whose condition holds and that has an effect whose value is
\* not a valid symbol of the target field's kind raises a fatal error (infer
\* aborts), and that value is not stored in the task.
C33_InvalidEffectValueRaises ==
    [][(/\ ConditionEvaluated
        /\ condition(task, rules[idx].conditions) = Bool(TRUE)
        /\ \E i \in 1..Len(rules[idx].effects) : InvalidValue(rules[idx].effects[i]))
       => /\ pc' = "aborted"
          /\ \A i \in 1..Len(rules[idx].effects) :
                InvalidValue(rules[idx].effects[i])
                   => ~StoredIn(task', rules[idx].effects[i])]_vars

(* ----------------------------------------------------------------------- *)
(* C34: select_next_question returns None only when nothing can be asked   *)
(* ----------------------------------------------------------------------- *)
\* C34: whenever both material facts are present, more than one candidate
\* fastener survives, and some question that is neither in facts nor in the
\* asked set covers a surviving category and can discriminate,
\* select_next_question returns a question (the single-category safety
\* check does not turn the choice into None).
C34_NoneOnlyWhenNothingToAsk ==
    [][(/\ SelectStep /\ BothMaterials(facts)
        /\ Len(Surviving) > 1
        /\ Filtered(asked') # {}) => selected' # None]_vars

\* a question covering one surviving category came back while more than one
\* category survives: the safety check's first two tests held and the
\* question was returned all the same
C34_Witness ==
    /\ returned /\ selected # None
    /\ BothMaterials(facts)
    /\ Len(Surviving) > 1
    /\ Cardinality(SurvivingCategories) > 1
    /\ Coverage(selected.value) = 1

(* ----------------------------------------------------------------------- *)
(* C35: answering one material question leaves the other material alone    *)
(* ----------------------------------------------------------------------- *)
\* answer_question records a first answer to the question in this step
FirstAnswerTo(qid) ==
    /\ qid \notin DOMAIN answers
    /\ qid \in DOMAIN answers'

\* C35: on an InputModel that has not been rebuilt from a snapshot, answering
\* the material_a question leaves material_b's material_type, porosity,
\* brittleness and base_strength unchanged, and answering the material_b
\* question leaves material_a's unchanged.
C35_MaterialAnswersIndependent ==
    [][/\ (FirstAnswerTo("material_a_type") /\ shared)
             => task'.materials.material_b = task.materials.material_b
       /\ (FirstAnswerTo("material_b_type") /\ shared)
             => task'.materials.material_a = task.materials.material_a]_vars

(* ----------------------------------------------------------------------- *)
(* C36: the questionnaire loop and a skipped question                      *)
(* ----------------------------------------------------------------------- *)
\* the user skips the question the loop has presented: no fact is added and
\* nothing is appended to question_history
SkipStep == returned /\ selected # None /\ ~returned' /\ facts' = facts

\* C36: when the user skips a question, that question is not presented
\* again in the same session: the loop's next select_next_question call,
\* made with the asked set of the unchanged question_history, does not
\* return it.
C36_SkippedQuestionNotPresentedAgain ==
    [][SkipStep =>
          select_next_question(Heap([facts |-> facts', conclusions |-> conclusions']),
                               asked).result # selected]_vars

(* ----------------------------------------------------------------------- *)
(* C37: a state dictionary and later answers                               *)
(* ----------------------------------------------------------------------- *)
\* C37: the dictionary get_state returned, or restore_state was given, is
\* not changed by a later answer_question call on that model.
C37_SnapshotIsAValue ==
    [][((AnswerQuestion \/ AnswerOffMenu) /\ state_dict # None)
          => state_dict' = state_dict]_vars

(* ----------------------------------------------------------------------- *)
(* C38: answer_question when it raises                                     *)
(* ----------------------------------------------------------------------- *)
\* the step is the call answer_question(id, v), and the call raises
RaisingAnswer(id, v) ==
    LET r == answer_question(answers, task, shared, id, Str(v))
    IN  /\ pc = "idle" /\ pc' = "idle"
        /\ r.raised
        /\ answers' = r.answers
        /\ task' = r.task

\* C38: if answer_question raises (unknown question id, unknown material, a
\* value that is not a member of the target enum), the answers map and the
\* task are both unchanged, and get_next_question returns what it returned
\* before the call.
C38_AnswerAllOrNothing ==
    [][\A id \in {Questions[i].id : i \in 1..Len(Questions)} \cup UnknownIds :
         \A v \in OffMenu :
            (AnswerOffMenu /\ RaisingAnswer(id, v))
               => /\ answers' = answers
                  /\ task' = task
                  /\ get_next_question(answers') = get_next_question(answers)]_vars

(* ----------------------------------------------------------------------- *)
(* C39: a rule whose action raises                                         *)
(* ----------------------------------------------------------------------- *)
\* infer aborts in this step inside the action of the rule at the loop's
\* position: the rule's condition held and one of its effects raised
ActionRaises ==
    /\ ConditionEvaluated
    /\ condition(task, rules[idx].conditions) = Bool(TRUE)
    /\ pc' = "aborted"

\* C39: when infer aborts because one effect of a rule fails, that rule's id
\* is not in fired_rules, none of that rule's effects has changed the task,
\* and the rules that fired earlier keep their fired marks.
C39_RaisingRuleNotPartiallyApplied ==
    [][ActionRaises => /\ rules[idx].id \notin fired_rules'
                       /\ task' = task
                       /\ fired_rules \subseteq fired_rules']_vars

(* ----------------------------------------------------------------------- *)
(* C40: rejections caused by derived requirements are permanent            *)
(* ----------------------------------------------------------------------- *)
\* one of the fastener's ordinal attributes is below the derived minimum
BelowMinimum(fastener, t) ==
    LET req == t.requirements
    IN  \/ get_strength_idx(fastener.tensile_strength)
              < get_strength_idx(req.min_tensile_strength)
        \/ get_strength_idx(fastener.shear_strength)
              < get_strength_idx(req.min_shear_strength)
        \/ get_resistance_idx(fastener.water_resistance)
              < get_resistance_idx(req.min_water_resistance)
        \/ get_resistance_idx(fastener.temperature_resistance)
              < get_resistance_idx(req.min_temperature_resistance)
        \/ get_resistance_idx(fastener.uv_resistance)
              < get_resistance_idx(req.min_uv_resistance)
        \/ get_resistance_idx(fastener.vibration_resistance)
              < get_resistance_idx(req.min_vibration_resistance)
        \/ get_resistance_idx(fastener.chemical_resistance)
              < get_resistance_idx(req.min_chemical_resistance)

CategoryExcluded(fastener, t) ==
    fastener.category \in t.requirements.excluded_categories.value

\* the matcher rejects the fastener for a derived minimum or an exclusion
DerivedRejects(fastener, t) ==
    /\ ~fastener_satisfies_requirements(fastener, t)
    /\ BelowMinimum(fastener, t) \/ CategoryExcluded(fastener, t)

\* C40: a fastener the matcher rejects because an ordinal attribute is below
\* a derived minimum, or because its category is excluded, is rejected for
\* such a reason after every further answer and every further step of infer.
C40_DerivedRejectionsPermanent ==
    [][\A k \in 1..Len(Fasteners) :
          DerivedRejects(Fasteners[k], task) => DerivedRejects(Fasteners[k], task')]_vars

\* two rules have fired in a session whose second infer call followed a
\* further answer; one fastener is below a minimum, another is excluded by
\* its category, and a third is still accepted
C40_Witness ==
    /\ pc = "idle" /\ settled
    /\ Cardinality(fired_rules) >= 2
    /\ Cardinality(DOMAIN answers) >= 2
    /\ \E k \in 1..Len(Fasteners) :
          BelowMinimum(Fasteners[k], task) /\ ~CategoryExcluded(Fasteners[k], task)
    /\ \E k \in 1..Len(Fasteners) :
          CategoryExcluded(Fasteners[k], task) /\ ~BelowMinimum(Fasteners[k], task)
    /\ \E k \in 1..Len(Fasteners) : fastener_satisfies_requirements(Fasteners[k], task)


====
